---- MODULE Spec2Model ----
(***************************************************************************)
(* Momentum trading bot (Hocine-kbc/bot_trading): the risk ledger          *)
(* (risk_manager.py), the trade lifecycle (trading_manager.py), the        *)
(* trading cycle (bot.py) and the filter chain (filters.py,                *)
(* filters_time.py).                                                       *)
(*                                                                         *)
(* Units.  Prices and PnL are whole dollars.  The percentages of config.py *)
(* (0.02, 0.06, 0.20, 0.05) are written in percent (2, 6, 20, 5) and       *)
(* applied as x * pct \div 100.  Quotients the code keeps as floats        *)
(* (pnl_pct, win_rate, averages, profit_factor) are exact fractions        *)
(* [num, den].  An instant is [day, minute]: day 0 is a Monday, minute is  *)
(* the minute of the day in exchange-local time.                           *)
(***************************************************************************)
EXTENDS Integers, Sequences, FiniteSets, TLC

VARIABLES
    positions,    \* RiskManager.positions: open_positions, closed_positions, statistics
    now,          \* the wall clock, [day, minute]
    market,       \* the market: ticker -> current price
    config,       \* the configuration read at import: MAX_POSITIONS, DRY_RUN_MODE
    cycle_count,  \* MomentumBot.cycle_count
    call,         \* the last operation: its name, arguments, return value and effects
    hist,         \* history: add_position calls, events, re-entered tickers, round trip
    pure,         \* inputs and result of the pure function under check
    run           \* MomentumBot.run: its position, the running flag, its shutdown

vars == <<positions, now, market, config, cycle_count, call, hist, pure, run>>

----------------------------------------------------------------------------
(* Bounds of the model *)

\* add_position calls per behaviour of the ledger specification
MaxAdds == 3
\* quote changes and day changes per behaviour
MaxEvents == 1
\* trading cycles per behaviour
MaxCycles == 2
\* operations per behaviour of the ledger specification
MaxOps == 3
\* largest configured MAX_POSITIONS
MaxConfiguredPositions == 2

----------------------------------------------------------------------------
(* Program constants *)

\* bot.py MomentumBot(capital=10000)
capital == 10000
\* config.py, in percent
DAILY_LOSS_LIMIT == 2
WEEKLY_LOSS_LIMIT == 6
POSITION_SIZE_PCT == 20
STOP_LOSS_PCT == 5
TAKE_PROFIT_PCT == 20
\* config.py MARKET_OPEN '09:30', MARKET_CLOSE '16:00', EXCLUDED_START '09:30',
\* EXCLUDED_END '10:15', as minutes of the day
MARKET_OPEN == 570
MARKET_CLOSE == 960
EXCLUDED_START == 570
EXCLUDED_END == 615
\* bot.py run_cycle: positions.get('max_positions', 5)
DefaultMaxPositions == 5

----------------------------------------------------------------------------
(* Values *)

Tickers == {"AAPL", "MSFT"}

\* Prices a quote can carry; all are multiples of 20, so that
\* entry * 0.95 and entry * 1.20 are whole dollars.
Prices == {140, 180, 200}

\* Python's None
None == [is_none |-> TRUE]

\* bid / ask of a quote whose value is not > 0 (stock_data.py:174-175 gives None)
NoPrice == 0

\* A float quotient kept exact
Frac(n, d) == [num |-> n, den |-> d]
Zero == Frac(0, 1)

Max(a, b) == IF a >= b THEN a ELSE b

Min(a, b) == IF a <= b THEN a ELSE b

Abs(x) == IF x >= 0 THEN x ELSE 0 - x

RECURSIVE SumSeq(_)
SumSeq(s) == IF s = <<>> THEN 0 ELSE Head(s) + SumSeq(Tail(s))

RECURSIVE SelectPnl(_, _)
\* the pnl of the records of s whose index satisfies keep, in order
SelectPnl(s, keep) ==
    IF s = <<>> THEN <<>>
    ELSE (IF keep[1] THEN <<Head(s).pnl>> ELSE <<>>)
         \o SelectPnl(Tail(s), [i \in 1..(Len(s) - 1) |-> keep[i + 1]])

----------------------------------------------------------------------------
(* risk_manager.py: RiskManager *)

\* Python's {}
EmptyDict == [is_empty |-> TRUE]

\* the ledger _load_positions gives when there is no positions file
EmptyLedger ==
    [open_positions |-> <<>>, closed_positions |-> <<>>, statistics |-> EmptyDict]

get_open_positions(P) == P.open_positions

get_position_any_ticker(P, ticker) ==
    IF get_open_positions(P) = <<>> THEN None ELSE Head(get_open_positions(P))
\* the first open position of the ticker, or None
get_position(P, ticker) ==
    LET open == get_open_positions(P)
        hits == {i \in DOMAIN open : open[i].ticker = ticker}
    IN IF hits = {} THEN None
       ELSE open[CHOOSE i \in hits : \A j \in hits : i <= j]

can_open_position_strict(P, maxpos) == Len(get_open_positions(P)) <= maxpos
can_open_position(P, maxpos) == ~(Len(get_open_positions(P)) >= maxpos)

calculate_position_size_floor(price) ==
    (capital * POSITION_SIZE_PCT) \div (100 * price)
calculate_position_size(price) ==
    Max(1, (capital * POSITION_SIZE_PCT) \div (100 * price))

get_daily_pnl(P, t) ==
    LET closed == P.closed_positions
    IN SumSeq(SelectPnl(closed,
                        [i \in DOMAIN closed |-> closed[i].exit_time.day = t.day]))

\* Monday 00:00 of the week of t
WeekStart(t) == [day |-> t.day - (t.day % 7), minute |-> 0]

TimeGE(a, b) == a.day > b.day \/ (a.day = b.day /\ a.minute >= b.minute)

get_weekly_pnl(P, t) ==
    LET closed == P.closed_positions
    IN SumSeq(SelectPnl(closed,
                        [i \in DOMAIN closed |->
                             TimeGE(closed[i].exit_time, WeekStart(t))]))

check_daily_loss_limit_strict(P, t) ==
    ~(get_daily_pnl(P, t) < -((capital * DAILY_LOSS_LIMIT) \div 100))
check_daily_loss_limit(P, t) ==
    ~(get_daily_pnl(P, t) <= -((capital * DAILY_LOSS_LIMIT) \div 100))

check_weekly_loss_limit(P, t) ==
    ~(get_weekly_pnl(P, t) <= -((capital * WEEKLY_LOSS_LIMIT) \div 100))

can_trade_ignoring_positions(P, maxpos, t) ==
    IF ~check_daily_loss_limit(P, t) THEN [ok |-> FALSE, reason |-> "daily"]
    ELSE IF ~check_weekly_loss_limit(P, t) THEN [ok |-> FALSE, reason |-> "weekly"]
    ELSE [ok |-> TRUE, reason |-> "OK"]
\* [ok, reason]: the first failing check gives the reason
can_trade(P, maxpos, t) ==
    IF ~can_open_position(P, maxpos) THEN [ok |-> FALSE, reason |-> "positions"]
    ELSE IF ~check_daily_loss_limit(P, t) THEN [ok |-> FALSE, reason |-> "daily"]
    ELSE IF ~check_weekly_loss_limit(P, t) THEN [ok |-> FALSE, reason |-> "weekly"]
    ELSE [ok |-> TRUE, reason |-> "OK"]

add_position(P, ticker, entry_price, quantity, stop_loss, take_profit, t) ==
    LET position == [ticker |-> ticker,
                     entry_price |-> entry_price,
                     quantity |-> quantity,
                     stop_loss |-> stop_loss,
                     take_profit |-> take_profit,
                     entry_time |-> t,
                     value |-> entry_price * quantity]
    IN [P EXCEPT !.open_positions = Append(@, position)]

\* statistics over the closed positions; unchanged when there is none
update_statistics(P) ==
    LET closed == P.closed_positions
        all == [i \in DOMAIN closed |-> TRUE]
        wins == SelectPnl(closed, [i \in DOMAIN closed |-> closed[i].pnl > 0])
        losses == SelectPnl(closed, [i \in DOMAIN closed |-> closed[i].pnl < 0])
        total_trades == Len(closed)
    IN IF closed = <<>> THEN P
       ELSE [P EXCEPT !.statistics =
               [total_trades |-> total_trades,
                winning_trades |-> Len(wins),
                losing_trades |-> Len(losses),
                win_rate |-> Frac(Len(wins) * 100, total_trades),
                average_gain |->
                    IF wins # <<>> THEN Frac(SumSeq(wins), Len(wins)) ELSE Zero,
                average_loss |->
                    IF losses # <<>> THEN Frac(SumSeq(losses), Len(losses)) ELSE Zero,
                profit_factor |->
                    IF losses # <<>> /\ SumSeq(losses) # 0
                    THEN Frac(SumSeq(wins), -SumSeq(losses)) ELSE Zero,
                total_pnl |-> SumSeq(SelectPnl(closed, all))]]

\* the open positions that close_position keeps
RemoveFirstOnly(open, ticker) ==
    LET hits == {i \in DOMAIN open : open[i].ticker = ticker}
        k == CHOOSE i \in hits : \A j \in hits : i <= j
    IN IF hits = {} THEN open
       ELSE SubSeq(open, 1, k - 1) \o SubSeq(open, k + 1, Len(open))
KeepAll(open, ticker) == open
RemoveTicker(open, ticker) == SelectSeq(open, LAMBDA p : p.ticker # ticker)

ClosedRecord(position, exit_price, exit_reason, t) ==
    [ticker |-> position.ticker,
     entry_price |-> position.entry_price,
     quantity |-> position.quantity,
     stop_loss |-> position.stop_loss,
     take_profit |-> position.take_profit,
     entry_time |-> position.entry_time,
     value |-> position.value,
     exit_price |-> exit_price,
     exit_time |-> t,
     exit_reason |-> exit_reason,
     pnl |-> (exit_price - position.entry_price) * position.quantity,
     pnl_pct |-> Frac((exit_price - position.entry_price) * 100, position.entry_price)]

\* [P, ret, raised]: the ledger after the call, the value returned, and whether
\* the call raised (exit_price None: the subtraction of line 170 raises TypeError
\* before anything is changed)
close_position(P, ticker, exit_price, exit_reason, t) ==
    LET position == get_position(P, ticker)
    IN IF position = None
       THEN [P |-> P, ret |-> None, raised |-> FALSE]
       ELSE IF exit_price = NoPrice
       THEN [P |-> P, ret |-> None, raised |-> TRUE]
       ELSE LET closed_position == ClosedRecord(position, exit_price, exit_reason, t)
                P1 == [P EXCEPT
                         !.open_positions = RemoveTicker(@, ticker),
                         !.closed_positions = Append(@, closed_position)]
            IN [P |-> update_statistics(P1), ret |-> closed_position, raised |-> FALSE]

----------------------------------------------------------------------------
(* stock_data.py: the market data source *)

\* Outcomes of one get_current_price call
Fetches == {"ok", "no_data", "no_bid", "no_ask"}

\* get_current_price: None, or the quote; a bid or ask that is not > 0 is None
get_current_price(price, fetch) ==
    IF fetch = "no_data" THEN None
    ELSE [bid |-> IF fetch = "no_bid" THEN NoPrice ELSE price,
          ask |-> IF fetch = "no_ask" THEN NoPrice ELSE price]

\* Outcomes of the broker calls of a live order: get_contract, placeOrder
Brokers == {"ok", "no_contract", "order_error"}

\* What the data source and the broker do during one entry or exit: all is
\* well, or exactly one call fails
CallEnvs ==
    {e \in [fetch : Fetches, broker : Brokers] : e.fetch = "ok" \/ e.broker = "ok"}

----------------------------------------------------------------------------
(* trading_manager.py: TradingManager *)

\* What an operation has done so far: the ledger, the notifications requested,
\* the broker orders placed and the tickers passed to add_position.
Ctx(P) == [P |-> P, notifications |-> <<>>, orders |-> 0, added |-> <<>>]

Notify(C, kind) == [C EXCEPT !.notifications = Append(@, kind)]

\* [stop_loss, take_profit]
calculate_stop_take_prices(entry_price) ==
    [stop_loss |-> (entry_price * (100 - STOP_LOSS_PCT)) \div 100,
     take_profit |-> (entry_price * (100 + TAKE_PROFIT_PCT)) \div 100]

Failure(C) == [C |-> C, ok |-> FALSE, ret |-> None]

\* enter_position from line 63 on, once the risk check has passed
EnterBody(C, ticker, dry_run, t, price, fetch, broker) ==
    LET price_data == get_current_price(price, fetch)
        current_price == price_data.ask
        quantity == calculate_position_size(current_price)
        st == calculate_stop_take_prices(current_price)
        trade_details == [ticker |-> ticker, entry_price |-> current_price,
                          quantity |-> quantity, stop_loss |-> st.stop_loss,
                          take_profit |-> st.take_profit, dry_run |-> dry_run]
        Added(D) == [D EXCEPT
                       !.P = add_position(@, ticker, current_price, quantity,
                                          st.stop_loss, st.take_profit, t),
                       !.added = Append(@, ticker)]
    IN IF price_data = None THEN Failure(C)
       \* ask None: calculate_position_size raises TypeError, caught at line 194
       ELSE IF current_price = NoPrice THEN Failure(Notify(C, "error"))
       ELSE IF quantity < 1 THEN Failure(C)
       ELSE IF dry_run
       THEN [C |-> Notify(Added(C), "entry"), ok |-> TRUE, ret |-> trade_details]
       ELSE IF broker = "no_contract" THEN Failure(C)
       \* bracketOrder / placeOrder raises, caught at line 194
       ELSE IF broker = "order_error" THEN Failure(Notify(C, "error"))
       ELSE [C |-> Notify(Added([C EXCEPT !.orders = @ + 3]), "entry"),
             ok |-> TRUE, ret |-> trade_details]

enter_position_unchecked(C, ticker, maxpos, dry_run, t, price, fetch, broker) ==
    EnterBody(C, ticker, dry_run, t, price, fetch, broker)
\* [C, ok, ret]
enter_position(C, ticker, maxpos, dry_run, t, price, fetch, broker) ==
    IF ~can_trade(C.P, maxpos, t).ok THEN Failure(C)
    ELSE EnterBody(C, ticker, dry_run, t, price, fetch, broker)

\* the notification of an exit, by its reason
ExitNotification(reason) ==
    IF reason \in {"TAKE_PROFIT", "TP"} THEN "take_profit"
    ELSE IF reason \in {"STOP_LOSS", "SL"} THEN "stop_loss"
    ELSE "emergency_exit"

\* exit_position when close_position is reached with the given context
CloseAndNotify(C, ticker, exit_price, reason, t) ==
    LET r == close_position(C.P, ticker, exit_price, reason, t)
    IN IF r.raised THEN Failure(Notify(C, "error"))
       ELSE [C |-> Notify([C EXCEPT !.P = r.P], ExitNotification(reason)),
             ok |-> TRUE, ret |-> r.ret]

ExitBodyDryRunKeepsLedger(C, ticker, reason, dry_run, t, price, fetch, broker) ==
    LET price_data == get_current_price(price, fetch)
        exit_price == price_data.bid
    IN IF price_data = None THEN Failure(C)
       ELSE IF exit_price = NoPrice THEN Failure(Notify(C, "error"))
       ELSE IF dry_run
       THEN [C |-> Notify(C, ExitNotification(reason)), ok |-> TRUE, ret |-> None]
       ELSE IF broker = "no_contract" THEN Failure(C)
       ELSE IF broker = "order_error" THEN Failure(Notify(C, "error"))
       ELSE CloseAndNotify([C EXCEPT !.orders = @ + 1], ticker, exit_price, reason, t)
\* exit_position from line 216 on, once the position is found
ExitBody(C, ticker, reason, dry_run, t, price, fetch, broker) ==
    LET price_data == get_current_price(price, fetch)
        exit_price == price_data.bid
    IN IF price_data = None THEN Failure(C)
       \* bid None: the log line 230 formats it with :.2f and raises TypeError,
       \* caught at line 348
       ELSE IF exit_price = NoPrice THEN Failure(Notify(C, "error"))
       ELSE IF dry_run THEN CloseAndNotify(C, ticker, exit_price, reason, t)
       ELSE IF broker = "no_contract" THEN Failure(C)
       \* placeOrder raises, caught at line 348
       ELSE IF broker = "order_error" THEN Failure(Notify(C, "error"))
       ELSE CloseAndNotify([C EXCEPT !.orders = @ + 1], ticker, exit_price, reason, t)

\* [C, ok, ret]
exit_position(C, ticker, reason, dry_run, t, price, fetch, broker) ==
    IF get_position(C.P, ticker) = None THEN Failure(C)
    ELSE ExitBody(C, ticker, reason, dry_run, t, price, fetch, broker)

\* config.py SPREAD_MAX_PCT = 0.005, i.e. 0.5 %, in hundredths of a percent
SPREAD_MAX_PCT == 50

\* What the news provider and the order book say about a ticker:
\* [news, downgrade, spread]; spread is the spread_pct of get_orderflow in
\* hundredths of a percent, or NoOrderflow when get_orderflow returns None.
NoOrderflow == -1

\* [exit, reason, calls]: the first check that holds decides; calls lists the
\* providers asked
check_emergency_exit_conditions_spread_first(em) ==
    IF em.spread # NoOrderflow /\ em.spread > SPREAD_MAX_PCT * 2
    THEN [exit |-> TRUE, reason |-> "Spread", calls |-> <<"orderflow">>]
    ELSE IF em.news
    THEN [exit |-> TRUE, reason |-> "News", calls |-> <<"orderflow", "news">>]
    ELSE IF em.downgrade
    THEN [exit |-> TRUE, reason |-> "Downgrade",
          calls |-> <<"orderflow", "news", "ratings">>]
    ELSE [exit |-> FALSE, reason |-> "OK",
          calls |-> <<"orderflow", "news", "ratings">>]
check_emergency_exit_conditions(em) ==
    IF em.news
    THEN [exit |-> TRUE, reason |-> "News", calls |-> <<"news">>]
    ELSE IF em.downgrade
    THEN [exit |-> TRUE, reason |-> "Downgrade", calls |-> <<"news", "ratings">>]
    ELSE IF em.spread # NoOrderflow /\ em.spread > SPREAD_MAX_PCT * 2
    THEN [exit |-> TRUE, reason |-> "Spread",
          calls |-> <<"news", "ratings", "orderflow">>]
    ELSE [exit |-> FALSE, reason |-> "OK",
          calls |-> <<"news", "ratings", "orderflow">>]

UrgentReason(reason) ==
    CASE reason = "News" -> "URGENCE: News"
      [] reason = "Downgrade" -> "URGENCE: Downgrade"
      [] OTHER -> "URGENCE: Spread"

RECURSIVE MonitorFrom(_, _, _, _, _, _, _, _)
\* the loop of monitor_open_positions over snapshot, the list read at line 379
MonitorFrom(C, snapshot, dry_run, t, mkt, em, fetch, broker) ==
    IF snapshot = <<>> THEN C
    ELSE LET ticker == Head(snapshot).ticker
             chk == check_emergency_exit_conditions(em[ticker])
             C1 == IF chk.exit
                   THEN exit_position(C, ticker, UrgentReason(chk.reason), dry_run, t,
                                      mkt[ticker], fetch[ticker], broker[ticker]).C
                   ELSE C
         IN MonitorFrom(C1, Tail(snapshot), dry_run, t, mkt, em, fetch, broker)

monitor_open_positions(C, dry_run, t, mkt, em, fetch, broker) ==
    MonitorFrom(C, get_open_positions(C.P), dry_run, t, mkt, em, fetch, broker)

----------------------------------------------------------------------------
(* news_monitor.py: NewsMonitor *)

\* What one HTTP call to the provider gives: a 200 response, another status,
\* or an Exception of requests.get (timeout, connection error); data is the
\* body, whatever the status
Statuses == {"ok", "http_error", "exception"}

\* bodies of calendar/earnings: the tickers with earnings within the period
EarningsBodies == {<<>>, <<"AAPL">>, <<"MSFT", "AAPL">>}
\* bodies of news and calendar/ratings for one ticker: for each item, whether
\* it is a negative news / a downgrade
ItemBodies == {<<>>, <<FALSE>>, <<TRUE>>, <<FALSE, TRUE>>}

make_request_ignoring_status(resp) ==
    IF resp.status = "exception" THEN None ELSE [body |-> resp.data]
\* _make_request: the JSON body of a 200 response; None on another status, and
\* on an Exception of requests.get, which line 85 catches
make_request(resp) ==
    IF resp.status = "exception" THEN None
    ELSE IF resp.status = "ok" THEN [body |-> resp.data]
    ELSE None

get_earnings_calendar(resp) ==
    LET data == make_request(resp)
    IN IF data # None THEN data.body ELSE <<>>

has_earnings_soon(ticker, resp) ==
    LET earnings == get_earnings_calendar(resp)
    IN \E i \in DOMAIN earnings : earnings[i] = ticker

get_breaking_news(resp) ==
    LET data == make_request(resp)
    IN IF data # None THEN data.body ELSE <<>>

\* [has, list]
has_negative_news(resp) ==
    LET negative_news == SelectSeq(get_breaking_news(resp), LAMBDA n : n)
    IN [has |-> Len(negative_news) > 0, list |-> negative_news]

get_ratings_changes(resp) ==
    LET data == make_request(resp)
    IN IF data # None THEN data.body ELSE <<>>

\* [has, list]
has_recent_downgrade(resp) ==
    LET downgrades == SelectSeq(get_ratings_changes(resp), LAMBDA r : r)
    IN [has |-> Len(downgrades) > 0, list |-> downgrades]

----------------------------------------------------------------------------
(* filters_time.py: TimeFilters *)

is_trading_hours(t) ==
    IF (t.day % 7) > 4 THEN FALSE
    ELSE IF t.minute < MARKET_OPEN THEN FALSE
    ELSE IF t.minute >= MARKET_CLOSE THEN FALSE
    ELSE TRUE

is_excluded_time(t) == EXCLUDED_START <= t.minute /\ t.minute < EXCLUDED_END

can_trade_now(t) ==
    IF ~is_trading_hours(t) THEN FALSE
    ELSE IF is_excluded_time(t) THEN FALSE
    ELSE TRUE

----------------------------------------------------------------------------
(* filters.py: TradingFilters *)

\* the filters in the order validate_all_filters calls them
FilterOrder ==
    <<"watchlist", "time", "earnings", "market", "sector", "stock",
      "negative_news", "downgrade", "spread">>

FilterNames == {FilterOrder[i] : i \in DOMAIN FilterOrder}

\* What the eight filters that do not read the clock answer for a ticker
FilterOutcomes == [FilterNames \ {"time"} -> BOOLEAN]

filter_time(t) == can_trade_now(t)

\* the answer of one filter: outcome is what its data say, t is the clock
RunFilter(name, outcome, t) ==
    IF name = "time" THEN filter_time(t) ELSE outcome[name]

validate_all_filters_early(outcome, t) ==
    LET failing == {i \in DOMAIN FilterOrder : ~RunFilter(FilterOrder[i], outcome, t)}
        last == IF failing = {} THEN Len(FilterOrder)
                ELSE CHOOSE i \in failing : \A j \in failing : i <= j
        calls == SubSeq(FilterOrder, 1, last)
    IN [all_passed |-> failing = {},
        results |-> [n \in {calls[i] : i \in DOMAIN calls} |->
                         [passed |-> RunFilter(n, outcome, t)]],
        calls |-> calls]
\* [all_passed, results, calls]: calls lists the filters run, in order
validate_all_filters(outcome, t) ==
    LET calls == FilterOrder
        results == [n \in {calls[i] : i \in DOMAIN calls} |->
                        [passed |-> RunFilter(n, outcome, t)]]
    IN [all_passed |-> \A n \in DOMAIN results : results[n].passed,
        results |-> results,
        calls |-> calls]

\* filters.py filter_earnings, filter_negative_news, filter_downgrade: passed
filter_earnings(ticker, resp) == ~has_earnings_soon(ticker, resp)
filter_negative_news(resp) == ~has_negative_news(resp).has
filter_downgrade(resp) == ~has_recent_downgrade(resp).has

\* what check_emergency_exit_conditions reads, from the provider's answers
\* config.py DOJI_BODY_PCT = 0.20 and HIGH_WICK_PCT = 0.50, in percent
DOJI_BODY_PCT == 20
HIGH_WICK_PCT == 50

filter_stock_emotion_ignoring_wick(df, volume, avg_volume) ==
    IF df = <<>> THEN [passed |-> FALSE, reason |-> "no data"]
    ELSE LET last == df[Len(df)]
             body == Abs(last.close - last.open)
             total_range == last.high - last.low
         IN IF total_range = 0 THEN [passed |-> FALSE, reason |-> "flat"]
            ELSE IF 100 * body < DOJI_BODY_PCT * total_range
            THEN [passed |-> FALSE, reason |-> "doji"]
            ELSE IF 2 * volume < avg_volume
            THEN [passed |-> FALSE, reason |-> "volume"]
            ELSE [passed |-> TRUE, reason |-> "OK"]
\* df is the sequence of candles of the frame (empty when get_ohlcv gives
\* nothing), volume that of the last candle and avg_volume the mean of the
\* candles before it
filter_stock_emotion(df, volume, avg_volume) ==
    IF df = <<>> THEN [passed |-> FALSE, reason |-> "no data"]
    ELSE LET last == df[Len(df)]
             body == Abs(last.close - last.open)
             total_range == last.high - last.low
             upper_shadow == last.high - Max(last.open, last.close)
         IN IF total_range = 0 THEN [passed |-> FALSE, reason |-> "flat"]
            \* body_pct = body / total_range < DOJI_BODY_PCT
            ELSE IF 100 * body < DOJI_BODY_PCT * total_range
            THEN [passed |-> FALSE, reason |-> "doji"]
            \* upper_shadow_pct = upper_shadow / total_range > HIGH_WICK_PCT
            ELSE IF 100 * upper_shadow > HIGH_WICK_PCT * total_range
            THEN [passed |-> FALSE, reason |-> "wick"]
            \* last.volume < avg_volume * 0.5
            ELSE IF 2 * volume < avg_volume
            THEN [passed |-> FALSE, reason |-> "volume"]
            ELSE [passed |-> TRUE, reason |-> "OK"]

EmergencyData(news, ratings, spread) ==
    [news |-> has_negative_news(news).has,
     downgrade |-> has_recent_downgrade(ratings).has,
     spread |-> spread]

----------------------------------------------------------------------------
(* candlestick_patterns.py: CandlestickPatterns *)

\* A candle is [open, high, low, close] in price ticks.  The float tests of
\* the source compare a quotient of two of these with a decimal constant; they
\* are written here as the same comparison multiplied out, after the test that
\* the denominator is not zero.

is_bullish_candle(candle) == candle.close > candle.open

is_bearish_candle(candle) == candle.close < candle.open

get_body_size(candle) == Abs(candle.close - candle.open)

get_upper_shadow(candle) == candle.high - Max(candle.open, candle.close)

get_lower_shadow(candle) == Min(candle.open, candle.close) - candle.low

get_total_range(candle) == candle.high - candle.low

detect_hammer(candle) ==
    LET body == get_body_size(candle)
        lower_shadow == get_lower_shadow(candle)
        upper_shadow == get_upper_shadow(candle)
        total_range == get_total_range(candle)
    IN IF total_range = 0 THEN FALSE
       \* body / total_range > 0.35
       ELSE IF 100 * body > 35 * total_range THEN FALSE
       ELSE IF lower_shadow < body * 2 THEN FALSE
       \* upper_shadow > total_range * 0.1
       ELSE IF 10 * upper_shadow > total_range THEN FALSE
       \* body_position = (max(open, close) - low) / total_range < 0.8
       ELSE IF 10 * (Max(candle.open, candle.close) - candle.low) < 8 * total_range
       THEN FALSE
       ELSE TRUE

detect_inverted_hammer(candle) ==
    LET body == get_body_size(candle)
        lower_shadow == get_lower_shadow(candle)
        upper_shadow == get_upper_shadow(candle)
        total_range == get_total_range(candle)
    IN IF total_range = 0 THEN FALSE
       ELSE IF 100 * body > 35 * total_range THEN FALSE
       ELSE IF upper_shadow < body * 2 THEN FALSE
       ELSE IF 10 * lower_shadow > total_range THEN FALSE
       \* body_position = (max(open, close) - low) / total_range > 0.2
       ELSE IF 10 * (Max(candle.open, candle.close) - candle.low) > 2 * total_range
       THEN FALSE
       ELSE TRUE

detect_bullish_engulfing(prev, current) ==
    IF ~is_bearish_candle(prev) THEN FALSE
    ELSE IF ~is_bullish_candle(current) THEN FALSE
    ELSE current.open <= prev.close /\ current.close >= prev.open

detect_piercing_line(prev, current) ==
    IF ~is_bearish_candle(prev) THEN FALSE
    ELSE IF ~is_bullish_candle(current) THEN FALSE
    ELSE IF current.open >= prev.close THEN FALSE
    \* current.close <= prev_mid = (prev.open + prev.close) / 2
    ELSE IF 2 * current.close <= prev.open + prev.close THEN FALSE
    ELSE TRUE

detect_three_white_soldiers(candles) ==
    IF Len(candles) < 3 THEN FALSE
    ELSE LET n == Len(candles)
             c1 == candles[n - 2]
             c2 == candles[n - 1]
             c3 == candles[n]
             bodies == {get_body_size(c1), get_body_size(c2), get_body_size(c3)}
             min_body == CHOOSE b \in bodies : \A x \in bodies : b <= x
             max_body == CHOOSE b \in bodies : \A x \in bodies : b >= x
         IN IF ~(is_bullish_candle(c1) /\ is_bullish_candle(c2) /\ is_bullish_candle(c3))
            THEN FALSE
            ELSE IF ~(c1.close < c2.close /\ c2.close < c3.close) THEN FALSE
            \* max_body > min_body * 1.5
            ELSE IF 2 * max_body > 3 * min_body THEN FALSE
            \* total_range > 0 and upper_shadow / total_range > 0.25
            ELSE \A c \in {c1, c2, c3} :
                     ~(get_total_range(c) > 0
                       /\ 4 * get_upper_shadow(c) > get_total_range(c))

detect_shooting_star(candle) == detect_inverted_hammer(candle)

detect_hanging_man(candle) == detect_hammer(candle)

detect_doji_dividing(candle) ==
    10 * get_body_size(candle) < get_total_range(candle)
detect_doji(candle) ==
    LET body == get_body_size(candle)
        total_range == get_total_range(candle)
    IN IF total_range = 0 THEN TRUE
       \* body / total_range < 0.10
       ELSE 10 * body < total_range

detect_bullish_pattern_hammer_first(df) ==
    IF Len(df) < 3 THEN None
    ELSE LET last == df[Len(df)]
             prev == df[Len(df) - 1]
             last_3 == SubSeq(df, Len(df) - 2, Len(df))
         IN IF detect_hammer(last)
            THEN [pattern |-> "HAMMER", confidence |-> 75]
            ELSE IF detect_three_white_soldiers(last_3)
            THEN [pattern |-> "THREE_WHITE_SOLDIERS", confidence |-> 90]
            ELSE IF detect_bullish_engulfing(prev, last)
            THEN [pattern |-> "BULLISH_ENGULFING", confidence |-> 85]
            ELSE IF detect_piercing_line(prev, last)
            THEN [pattern |-> "PIERCING_LINE", confidence |-> 80]
            ELSE IF detect_inverted_hammer(last)
            THEN [pattern |-> "INVERTED_HAMMER", confidence |-> 70]
            ELSE None
\* df is the sequence of candles of the frame, oldest first
detect_bullish_pattern(df) ==
    IF Len(df) < 3 THEN None
    ELSE LET last == df[Len(df)]
             prev == df[Len(df) - 1]
             last_3 == SubSeq(df, Len(df) - 2, Len(df))
         IN IF detect_three_white_soldiers(last_3)
            THEN [pattern |-> "THREE_WHITE_SOLDIERS", confidence |-> 90]
            ELSE IF detect_bullish_engulfing(prev, last)
            THEN [pattern |-> "BULLISH_ENGULFING", confidence |-> 85]
            ELSE IF detect_piercing_line(prev, last)
            THEN [pattern |-> "PIERCING_LINE", confidence |-> 80]
            ELSE IF detect_hammer(last)
            THEN [pattern |-> "HAMMER", confidence |-> 75]
            ELSE IF detect_inverted_hammer(last)
            THEN [pattern |-> "INVERTED_HAMMER", confidence |-> 70]
            ELSE None

\* config.py MIN_VOLUME_MULTIPLIER = 1.2, in tenths
MIN_VOLUME_MULTIPLIER == 12

\* volume is that of the candle
validate_volume(volume, avg_volume) ==
    IF avg_volume = 0 THEN FALSE
    ELSE 10 * volume >= MIN_VOLUME_MULTIPLIER * avg_volume

----------------------------------------------------------------------------
(* breakout_detector.py: BreakoutDetector *)

\* config.py BREAKOUT_VOLUME_MULTIPLIER = 1.5, in tenths
BREAKOUT_VOLUME_MULTIPLIER == 15

\* df is what get_ohlcv gives: [enough, open, close, resistance, volume,
\* avg_volume], enough telling that a frame of at least 21 bars came back, open,
\* close and volume being those of the last bar, resistance the highest high and
\* avg_volume the mean volume of the 20 bars before it.
detect_breakout(df) ==
    IF ~df.enough THEN [is_breakout |-> FALSE, details |-> None]
    ELSE LET is_above_resistance == df.close > df.resistance
             is_green_candle == df.close > df.open
             volume_ratio == IF df.avg_volume > 0
                             THEN Frac(df.volume, df.avg_volume) ELSE Zero
             is_high_volume ==
                 10 * volume_ratio.num >= BREAKOUT_VOLUME_MULTIPLIER * volume_ratio.den
             is_breakout == is_above_resistance /\ is_green_candle /\ is_high_volume
         IN [is_breakout |-> is_breakout,
             details |-> [current_price |-> df.close, resistance |-> df.resistance,
                          is_green |-> is_green_candle, volume_ratio |-> volume_ratio,
                          is_breakout |-> is_breakout]]

\* orderflow is what get_orderflow gives: None or [bid_pressure, spread_pct],
\* in percent and in hundredths of a percent
is_orderflow_bullish(orderflow) ==
    IF orderflow = None THEN [is_bullish |-> FALSE, orderflow |-> None]
    ELSE LET is_bid_dominant == orderflow.bid_pressure > 55
             is_spread_ok == orderflow.spread_pct < SPREAD_MAX_PCT
             is_bullish == is_bid_dominant /\ is_spread_ok
         IN [is_bullish |-> is_bullish,
             orderflow |-> [bid_pressure |-> orderflow.bid_pressure,
                            spread_pct |-> orderflow.spread_pct,
                            is_bullish |-> is_bullish]]

validate_breakout_with_orderflow_quote_first(df, orderflow) ==
    LET b == detect_breakout(df)
        o == is_orderflow_bullish(orderflow)
    IN IF ~b.is_breakout
       THEN [is_valid |-> FALSE, calls |-> <<"get_orderflow", "get_ohlcv">>,
             details |-> [breakout |-> b.details, orderflow |-> o.orderflow,
                          valid |-> FALSE, reason |-> "Pas de breakout"]]
       ELSE IF ~o.is_bullish
       THEN [is_valid |-> FALSE, calls |-> <<"get_orderflow", "get_ohlcv">>,
             details |-> [breakout |-> b.details, orderflow |-> o.orderflow,
                          valid |-> FALSE, reason |-> "Orderflow non favorable"]]
       ELSE [is_valid |-> TRUE, calls |-> <<"get_orderflow", "get_ohlcv">>,
             details |-> [breakout |-> b.details, orderflow |-> o.orderflow,
                          valid |-> TRUE, reason |-> "Breakout valide"]]
\* [is_valid, details, calls]: calls lists the provider calls made, in order
validate_breakout_with_orderflow(df, orderflow) ==
    LET b == detect_breakout(df)
        o == is_orderflow_bullish(orderflow)
    IN IF ~b.is_breakout
       THEN [is_valid |-> FALSE, calls |-> <<"get_ohlcv">>,
             details |-> [breakout |-> b.details, orderflow |-> None,
                          valid |-> FALSE, reason |-> "Pas de breakout"]]
       ELSE IF ~o.is_bullish
       THEN [is_valid |-> FALSE, calls |-> <<"get_ohlcv", "get_orderflow">>,
             details |-> [breakout |-> b.details, orderflow |-> o.orderflow,
                          valid |-> FALSE, reason |-> "Orderflow non favorable"]]
       ELSE [is_valid |-> TRUE, calls |-> <<"get_ohlcv", "get_orderflow">>,
             details |-> [breakout |-> b.details, orderflow |-> o.orderflow,
                          valid |-> TRUE, reason |-> "Breakout valide"]]

----------------------------------------------------------------------------
(* bot.py: MomentumBot *)

\* What the data of a ticker show during one scan: the answers of the eight
\* filters, the confidence of the bullish pattern (NoPattern when get_ohlcv
\* gives nothing or no pattern is found), and the later checks.  raises tells
\* whether an Exception is raised during the scan of the ticker: "scan" inside
\* scan_ticker, "notify" by the notification of its signal, "none" otherwise.
NoPattern == 0

AllPass == [n \in FilterNames \ {"time"} |-> TRUE]

ScanCases ==
    {[filters |-> [AllPass EXCEPT !["earnings"] = FALSE], pattern |-> 85,
      volume_ok |-> TRUE, breakout_ok |-> TRUE,
      volume_ratio |-> 20, bid_pressure |-> 60, raises |-> "none"],
     [filters |-> AllPass, pattern |-> 70,
      volume_ok |-> TRUE, breakout_ok |-> TRUE,
      volume_ratio |-> 20, bid_pressure |-> 60, raises |-> "none"],
     [filters |-> AllPass, pattern |-> 85,
      volume_ok |-> TRUE, breakout_ok |-> TRUE,
      volume_ratio |-> 25, bid_pressure |-> 65, raises |-> "none"],
     [filters |-> AllPass, pattern |-> 85,
      volume_ok |-> TRUE, breakout_ok |-> TRUE,
      volume_ratio |-> 25, bid_pressure |-> 65, raises |-> "scan"],
     [filters |-> AllPass, pattern |-> 85,
      volume_ok |-> TRUE, breakout_ok |-> TRUE,
      volume_ratio |-> 20, bid_pressure |-> 60, raises |-> "notify"]}

scan_ticker_bonus_at_threshold(ticker, sc, t) ==
    LET v == validate_all_filters(sc.filters, t)
        result == [ticker |-> ticker, valid |-> FALSE,
                   filters_passed |-> v.results, score |-> 0]
        score == sc.pattern + (IF sc.volume_ratio >= 20 THEN 10 ELSE 0)
                            + (IF sc.bid_pressure >= 60 THEN 5 ELSE 0)
    IN IF ~v.all_passed THEN result
       ELSE IF sc.pattern = NoPattern THEN result
       ELSE IF ~sc.volume_ok THEN result
       ELSE IF ~sc.breakout_ok THEN result
       ELSE [result EXCEPT !.score = IF score > 100 THEN 100 ELSE score,
                           !.valid = TRUE]
\* [ticker, valid, filters_passed, score]; volume_ratio is in tenths (20 is
\* 2.0) and bid_pressure in percent
scan_ticker(ticker, sc, t) ==
    LET v == validate_all_filters(sc.filters, t)
        result == [ticker |-> ticker, valid |-> FALSE,
                   filters_passed |-> v.results, score |-> 0]
        score == sc.pattern + (IF sc.volume_ratio > 20 THEN 10 ELSE 0)
                            + (IF sc.bid_pressure > 60 THEN 5 ELSE 0)
    IN IF ~v.all_passed THEN result
       ELSE IF sc.pattern = NoPattern THEN result
       ELSE IF ~sc.volume_ok THEN result
       ELSE IF ~sc.breakout_ok THEN result
       ELSE [result EXCEPT !.score = IF score > 100 THEN 100 ELSE score,
                           !.valid = TRUE]

\* watchlist_manager.get_all_tickers(): the tickers, sorted
all_tickers == <<"AAPL", "MSFT">>

SortByScoreKeepingOrder(signals) == signals
RECURSIVE SortByScore(_)
\* list.sort(key=score, reverse=True): descending and stable
SortByScore(signals) ==
    IF signals = <<>> THEN <<>>
    ELSE LET best == CHOOSE i \in DOMAIN signals :
                       /\ \A j \in DOMAIN signals : signals[j].score <= signals[i].score
                       /\ \A j \in 1..(i - 1) : signals[j].score < signals[i].score
         IN <<signals[best]>>
            \o SortByScore(SubSeq(signals, 1, best - 1)
                           \o SubSeq(signals, best + 1, Len(signals)))

ScanOneDropping(acc, ticker, sc, minutes) ==
    LET result == scan_ticker(ticker, sc, acc.t)
        t1 == [acc.t EXCEPT !.minute = @ + minutes]
        seen == [acc EXCEPT !.scanned = Append(@, ticker), !.t = t1]
    IN IF sc.raises # "none" THEN [seen EXCEPT !.signals = <<>>]
       ELSE IF ~result.valid THEN seen
       ELSE [seen EXCEPT !.signals = Append(@, result),
                         !.C = Notify(@, "signal")]
\* one turn of the loop of scan_watchlist, lines 355-378; acc is
\* [C, signals, scanned, t]: the context, valid_signals, the tickers whose scan
\* was started, and the clock.  The scan reads the clock in its time filter and
\* then takes the given minutes.  An Exception ends the turn where it is raised.
ScanOne(acc, ticker, sc, minutes) ==
    LET result == scan_ticker(ticker, sc, acc.t)
        t1 == [acc.t EXCEPT !.minute = @ + minutes]
        seen == [acc EXCEPT !.scanned = Append(@, ticker), !.t = t1]
    IN IF sc.raises = "scan" THEN seen
       ELSE IF ~result.valid THEN seen
       ELSE IF sc.raises = "notify" THEN [seen EXCEPT !.signals = Append(@, result)]
       ELSE [seen EXCEPT !.signals = Append(@, result),
                         !.C = Notify(@, "signal")]

RECURSIVE ScanFrom(_, _, _, _)
\* the loop of scan_watchlist over the tickers left
ScanFrom(acc, tickers, scans, elapsed) ==
    IF tickers = <<>> THEN acc
    ELSE ScanFrom(ScanOne(acc, Head(tickers), scans[Head(tickers)],
                          elapsed[Head(tickers)]),
                  Tail(tickers), scans, elapsed)

\* [C, signals, scanned, t]
scan_watchlist(C, scans, elapsed, t) ==
    LET r == ScanFrom([C |-> C, signals |-> <<>>, scanned |-> <<>>, t |-> t],
                      all_tickers, scans, elapsed)
    IN [r EXCEPT !.signals = SortByScore(@)]

----------------------------------------------------------------------------
(* State shared by the specifications *)

NoCall ==
    [op |-> "none", ticker |-> "", ok |-> FALSE, ret |-> None,
     notifications |-> <<>>, orders |-> 0, cycle |-> None]

\* the round trip under way: add_position(ticker, price, ...) from a ledger with
\* open0 and closed0 and no open position of ticker (phase 1), then
\* close_position(ticker, price, ...) right after it (phase 2)
NoTrip == [phase |-> 0, ticker |-> "", price |-> 0, open0 |-> <<>>, closed0 |-> <<>>]

NoHist ==
    [adds |-> 0, events |-> 0, ops |-> 0, reentered |-> {},
     trip |-> NoTrip]

ClosedTickers(P) == {P.closed_positions[i].ticker : i \in DOMAIN P.closed_positions}
OpenTickers(P) == {P.open_positions[i].ticker : i \in DOMAIN P.open_positions}

\* the history after an operation that ended with context C
HistAfter(h, C, trip) ==
    [h EXCEPT
       !.adds = @ + Len(C.added),
       !.ops = @ + 1,
       !.reentered = @ \cup {C.added[i] : i \in {j \in DOMAIN C.added :
                                                  C.added[j] \in ClosedTickers(C.P)}},
       !.trip = trip]

CallOf(op, ticker, r) ==
    [NoCall EXCEPT !.op = op, !.ticker = ticker, !.ok = r.ok, !.ret = r.ret,
                   !.notifications = r.C.notifications, !.orders = r.C.orders]

Configs == [MAX_POSITIONS : 1..MaxConfiguredPositions, DRY_RUN_MODE : BOOLEAN]

\* MomentumBot after __init__, run() not yet called.  pc is the position of
\* run(); interrupted tells where the KeyboardInterrupt arrived; shutdown lists
\* what the finally block has done, in order.
NoRun ==
    [pc |-> "idle", running |-> FALSE, connected |-> FALSE, connect_failed |-> FALSE,
     interrupted |-> "no", failed_cycles |-> 0, last_cycle_failed |-> FALSE,
     shutdown |-> <<>>]

InitCommon ==
    /\ run = NoRun
    /\ positions = EmptyLedger
    /\ market = [t \in Tickers |-> 200]
    /\ config \in Configs
    /\ cycle_count = 0
    /\ call = NoCall
    /\ hist = NoHist

----------------------------------------------------------------------------
(* The ledger driven directly: add_position, close_position, exit_position *)

ExitReasons == {"TAKE_PROFIT", "STOP_LOSS", "URGENCE: News"}

AddPosition(ticker, price, quantity) ==
    LET st == calculate_stop_take_prices(price)
        C == [Ctx(add_position(positions, ticker, price, quantity,
                               st.stop_loss, st.take_profit, now))
                 EXCEPT !.added = <<ticker>>]
        trip == IF get_position(positions, ticker) = None
                THEN [phase |-> 1, ticker |-> ticker, price |-> price,
                      open0 |-> positions.open_positions,
                      closed0 |-> positions.closed_positions]
                ELSE NoTrip
    IN /\ hist.ops < MaxOps
       /\ hist.adds < MaxAdds
       /\ positions' = C.P
       /\ call' = CallOf("add_position", ticker, [C |-> C, ok |-> TRUE, ret |-> None])
       /\ hist' = HistAfter(hist, C, trip)
       /\ UNCHANGED <<now, market, config, cycle_count, pure, run>>

ClosePosition(ticker, exit_price, reason) ==
    LET r == close_position(positions, ticker, exit_price, reason, now)
        C == [Ctx(r.P) EXCEPT !.added = <<>>]
        trip == IF /\ hist.trip.phase = 1
                   /\ hist.trip.ticker = ticker
                   /\ hist.trip.price = exit_price
                THEN [hist.trip EXCEPT !.phase = 2]
                ELSE NoTrip
    IN /\ hist.ops < MaxOps
       /\ positions' = r.P
       /\ call' = CallOf("close_position", ticker,
                         [C |-> C, ok |-> r.ret # None, ret |-> r.ret])
       /\ hist' = HistAfter(hist, C, trip)
       /\ UNCHANGED <<now, market, config, cycle_count, pure, run>>

ExitPosition(ticker, reason, env) ==
    LET r == exit_position(Ctx(positions), ticker, reason, config.DRY_RUN_MODE, now,
                           market[ticker], env.fetch, env.broker)
    IN /\ hist.ops < MaxOps
       /\ positions' = r.C.P
       /\ call' = CallOf("exit_position", ticker, r)
       /\ hist' = HistAfter(hist, r.C, NoTrip)
       /\ UNCHANGED <<now, market, config, cycle_count, pure, run>>

EnterPosition(ticker, env) ==
    LET r == enter_position(Ctx(positions), ticker, config.MAX_POSITIONS,
                            config.DRY_RUN_MODE, now, market[ticker],
                            env.fetch, env.broker)
    IN /\ hist.ops < MaxOps
       /\ hist.adds < MaxAdds
       /\ positions' = r.C.P
       /\ call' = CallOf("enter_position", ticker, r)
       /\ hist' = HistAfter(hist, r.C, NoTrip)
       /\ UNCHANGED <<now, market, config, cycle_count, pure, run>>

LedgerInit ==
    /\ InitCommon
    /\ pure = None
    /\ config.MAX_POSITIONS = MaxConfiguredPositions
    /\ now = [day |-> 0, minute |-> EXCLUDED_END]

\* entry and exit prices of the direct calls
LedgerPrices == {180, 200}

LedgerNext ==
    \/ \E ticker \in Tickers, price \in LedgerPrices :
         \E quantity \in {1, calculate_position_size(price)} :
           AddPosition(ticker, price, quantity)
    \/ \E ticker \in Tickers, exit_price \in LedgerPrices, reason \in ExitReasons :
         ClosePosition(ticker, exit_price, reason)
    \/ \E ticker \in Tickers, reason \in ExitReasons, env \in CallEnvs :
         ExitPosition(ticker, reason, env)
    \/ \E ticker \in Tickers, env \in CallEnvs : EnterPosition(ticker, env)

SpecLedger == LedgerInit /\ [][LedgerNext]_vars

----------------------------------------------------------------------------
(* The bot driven by its trading cycles *)

\* What the news provider and the order book say about a ticker whose position
\* is monitored
Calm == [news |-> FALSE, downgrade |-> FALSE, spread |-> 10]

EmCases == {Calm, [Calm EXCEPT !.news = TRUE]}

\* What the data source and the broker do during one cycle
CycleEnvs == {e \in CallEnvs : e.fetch \in {"ok", "no_data"} /\ e.broker # "no_contract"}

\* What the scan of a ticker finds during one cycle
CycleScanCases ==
    {sc \in ScanCases : sc.raises = "none" /\ (sc.pattern = 70 \/ ~sc.filters["earnings"])}

NoElapsed == [t \in Tickers |-> 0]

\* The world during one cycle: is_market_bullish, the emergency data and the
\* scan data of each ticker, the behaviour of the data source and the broker,
\* and the minutes the scan of each ticker takes.
CycleInputs(Em, Elapsed) ==
    [bullish : {TRUE}, em : [Tickers -> Em], scans : [Tickers -> CycleScanCases],
     env : CycleEnvs, elapsed : Elapsed]
    \cup
    [bullish : {FALSE}, em : {[t \in Tickers |-> Calm]},
     scans : {[t \in Tickers |-> CHOOSE sc \in CycleScanCases : sc.pattern = 70]},
     env : {[fetch |-> "ok", broker |-> "ok"]}, elapsed : {NoElapsed}]

\* The cycle reads the emergency data of a ticker only if it has an open
\* position, and calls the data source and the broker only for an exit or an
\* entry; what is not read is left at its first value.
Read(P, inp) ==
    /\ \A t \in Tickers \ OpenTickers(P) : inp.em[t] = Calm
    /\ (/\ \A t \in Tickers : inp.em[t] = Calm
        /\ \A t \in Tickers : ~inp.scans[t].filters["earnings"])
       => inp.env = [fetch |-> "ok", broker |-> "ok"]

\* what a cycle that stopped at a gate reports
Stopped(C, stage, t) ==
    [C |-> C, stage |-> stage, t |-> t, monitored |-> <<>>,
     open_count |-> Len(get_open_positions(C.P)), scanned |-> <<>>,
     signals |-> <<>>, entry_orders |-> 0, entered |-> FALSE, ret |-> None, entry_time |-> t,
     daily_pnl |-> 0, weekly_pnl |-> 0]

MarketUnfavorableEveryCycle(C, count) == Notify(C, "market_unfavorable")
\* run_cycle lines 468-471: the notification of an unfavourable market is
\* sent in the first cycle only
MarketUnfavorable(C, count) ==
    IF count = 1 THEN Notify(C, "market_unfavorable") ELSE C

\* run_cycle after cycle_count += 1.  [C, stage, t, ...]: stage is the step the
\* cycle ended in, t the clock at its end, monitored the positions step 3 went
\* through, signals the result of the scan, daily_pnl and weekly_pnl the PnL of
\* the ledger when execute_signal is called.
run_cycle(P, count, conf, t, mkt, inp) ==
    LET C0 == Ctx(P)
        fetch == [k \in Tickers |-> inp.env.fetch]
        broker == [k \in Tickers |-> inp.env.broker]
        risk == can_trade(P, conf.MAX_POSITIONS, t)
        C3 == monitor_open_positions(C0, conf.DRY_RUN_MODE, t, mkt, inp.em,
                                     fetch, broker)
        open_count == Len(get_open_positions(C3.P))
        max_positions == DefaultMaxPositions
        scan == scan_watchlist(C3, inp.scans, inp.elapsed, t)
        best_signal == scan.signals[1]
        entry == enter_position(scan.C, best_signal.ticker, conf.MAX_POSITIONS,
                                conf.DRY_RUN_MODE, scan.t, mkt[best_signal.ticker],
                                inp.env.fetch, inp.env.broker)
        after3 == [Stopped(C3, "done", t) EXCEPT
                     !.monitored = get_open_positions(P)]
    IN IF ~filter_time(t) THEN Stopped(C0, "time", t)
       ELSE IF ~inp.bullish
       THEN Stopped(MarketUnfavorable(C0, count), "market", t)
       ELSE IF ~risk.ok THEN Stopped(Notify(C0, "pause"), "risk", t)
       ELSE IF ~(open_count < max_positions) THEN after3
       ELSE IF scan.signals = <<>>
       THEN [after3 EXCEPT !.C = scan.C, !.t = scan.t, !.scanned = scan.scanned]
       ELSE [after3 EXCEPT
               !.C = entry.C, !.t = scan.t, !.scanned = scan.scanned,
               !.signals = scan.signals,
               !.entry_orders = entry.C.orders - scan.C.orders,
               !.entered = entry.ok, !.ret = entry.ret, !.entry_time = scan.t,
               !.daily_pnl = get_daily_pnl(scan.C.P, scan.t),
               !.weekly_pnl = get_weekly_pnl(scan.C.P, scan.t)]

\* the state after a call of run_cycle that ended as r tells
CycleResult(r, inp) ==
    /\ cycle_count' = cycle_count + 1
    /\ positions' = r.C.P
    /\ now' = r.t
    /\ call' = [NoCall EXCEPT
                  !.op = "run_cycle",
                  !.ticker = IF r.signals = <<>> THEN "" ELSE r.signals[1].ticker,
                  !.ok = r.entered, !.ret = r.ret,
                  !.notifications = r.C.notifications, !.orders = r.C.orders,
                  !.cycle = [stage |-> r.stage, env |-> inp.env, em |-> inp.em,
                             monitored |-> r.monitored,
                             open_count |-> r.open_count,
                             scanned |-> r.scanned,
                             scans |-> IF r.scanned = <<>> THEN None ELSE inp.scans,
                             entry_orders |-> r.entry_orders,
                             signals |-> [i \in DOMAIN r.signals |->
                                            [ticker |-> r.signals[i].ticker,
                                             score |-> r.signals[i].score]],
                             entry_time |-> r.entry_time,
                             daily_pnl |-> r.daily_pnl,
                             weekly_pnl |-> r.weekly_pnl]]
    /\ hist' = HistAfter(hist, r.C, NoTrip)
    /\ UNCHANGED <<market, config, pure>>

\* one call of run_cycle, whatever the number of cycles before it
Cycle(inp) ==
    /\ Read(positions, inp)
    /\ \E r \in {run_cycle(positions, cycle_count + 1, config, now, market, inp)} :
         CycleResult(r, inp)
    /\ UNCHANGED run

RunCycle(inp) ==
    /\ cycle_count < MaxCycles
    /\ Cycle(inp)

\* the quote of a ticker changes before a cycle
MarketMove(ticker, price) ==
    /\ cycle_count < MaxCycles
    /\ hist.events < MaxEvents
    /\ price # market[ticker]
    /\ market' = [market EXCEPT ![ticker] = price]
    /\ hist' = [hist EXCEPT !.events = @ + 1]
    /\ UNCHANGED <<positions, now, config, cycle_count, call, pure, run>>

\* the next cycle runs on the next day, at the same time of day
NextDay ==
    /\ cycle_count < MaxCycles
    /\ hist.events < MaxEvents
    /\ now' = [now EXCEPT !.day = @ + 1]
    /\ hist' = [hist EXCEPT !.events = @ + 1]
    /\ UNCHANGED <<positions, market, config, cycle_count, call, pure, run>>

Init ==
    /\ InitCommon
    /\ pure = None
    /\ now = [day |-> 0, minute |-> EXCLUDED_END]

Next ==
    \/ \E inp \in CycleInputs(EmCases, {NoElapsed}) : RunCycle(inp)
    \/ \E ticker \in Tickers, price \in Prices : MarketMove(ticker, price)
    \/ NextDay

Spec == Init /\ [][Next]_vars

----------------------------------------------------------------------------
(* MomentumBot.run: startup, the polling loop, the interrupt, the shutdown *)

\* The user's interrupt is one Ctrl+C, delivered as a KeyboardInterrupt at the
\* point run() has reached inside its try block.  No handler of the program
\* catches it before the except clause of run(): the handlers of run_cycle's
\* callees and of the loop are all "except Exception".

AfterCycleStopsOnError(rn, failed) ==
    IF failed
    THEN [rn EXCEPT !.pc = "finally", !.failed_cycles = @ + 1,
                    !.last_cycle_failed = TRUE]
    ELSE [rn EXCEPT !.pc = "sleep", !.last_cycle_failed = FALSE]
\* run() lines 564-575: the cycle returned, or raised an Exception that the
\* loop logged and notified; either way run() goes on to time.sleep
AfterCycle(rn, failed) ==
    [rn EXCEPT !.pc = "sleep",
               !.failed_cycles = IF failed THEN @ + 1 ELSE @,
               !.last_cycle_failed = failed]

FinallyOnlyAfterInterrupt(rn) ==
    [rn EXCEPT !.pc = "done", !.running = FALSE,
               !.connected = IF rn.interrupted # "no" THEN FALSE ELSE @,
               !.shutdown = IF rn.interrupted # "no"
                            THEN @ \o <<"running_false", "disconnect", "summary">>
                            ELSE @ \o <<"running_false">>]
\* the finally block of run(), lines 581-603: running = False, disconnect(),
\* the final summary
Finally(rn) ==
    [rn EXCEPT !.pc = "done", !.running = FALSE, !.connected = FALSE,
               !.shutdown = @ \o <<"running_false", "disconnect", "summary">>]

\* run() line 542
RunStart ==
    /\ run.pc = "idle"
    /\ run' = [run EXCEPT !.pc = "connect", !.running = TRUE]
    /\ UNCHANGED <<positions, now, market, config, cycle_count, call, hist, pure>>

\* run() lines 550-560: connect() returns and the start is notified, or
\* connect() re-raises the Exception of ib.connect (stock_data.py:80-83), which
\* no except clause of run() catches
Connect(outcome) ==
    /\ run.pc = "connect"
    /\ run' = IF outcome = "ok"
              THEN [run EXCEPT !.pc = "cycle", !.connected = TRUE]
              ELSE [run EXCEPT !.pc = "finally", !.connect_failed = TRUE]
    /\ call' = [NoCall EXCEPT !.op = "connect", !.ok = (outcome = "ok"),
                              !.notifications = IF outcome = "ok"
                                                THEN <<"bot_started">> ELSE <<>>]
    /\ UNCHANGED <<positions, now, market, config, cycle_count, hist, pure>>

\* what a cycle that raised an Exception reports: raised at its start, or at
\* its end after all its effects; sent tells whether the error notification
\* of the loop went out (send_message contains its own failure)
Raised(r, P, t, raises, sent) ==
    LET base == IF raises = "start" THEN Stopped(Ctx(P), "error", t)
                ELSE [r EXCEPT !.stage = "error"]
    IN IF sent THEN [base EXCEPT !.C = Notify(@, "error")] ELSE base

\* one turn of the loop of run(), lines 563-575
LoopCycle(inp, raises, sent) ==
    /\ run.pc = "cycle"
    /\ run.running
    /\ cycle_count < MaxCycles
    /\ Read(positions, inp)
    /\ raises = "none" => sent
    /\ \E r \in {run_cycle(positions, cycle_count + 1, config, now, market, inp)} :
         CycleResult(IF raises = "none" THEN r
                     ELSE Raised(r, positions, now, raises, sent), inp)
    /\ run' = AfterCycle(run, raises # "none")

\* time.sleep(interval_seconds) returns
Sleep ==
    /\ run.pc = "sleep"
    /\ run' = [run EXCEPT !.pc = "cycle"]
    /\ UNCHANGED <<positions, now, market, config, cycle_count, call, hist, pure>>

\* Ctrl+C during connect() or during time.sleep: lines 577-579
Interrupt ==
    /\ run.pc \in {"connect", "sleep"}
    /\ run' = [run EXCEPT !.pc = "finally", !.interrupted = run.pc]
    /\ UNCHANGED <<positions, now, market, config, cycle_count, call, hist, pure>>

\* the cycle r cut by a KeyboardInterrupt: at "gate", before step 1 has
\* decided; at "order", in enter_position right after the placeOrder loop
\* (trading_manager.py:159-160) and before add_position (:165)
Interrupted(r, P, t, at) ==
    IF at = "gate" THEN Stopped(Ctx(P), "interrupted", t)
    ELSE [r EXCEPT
            !.stage = "interrupted", !.entered = FALSE, !.ret = None,
            !.C = [@ EXCEPT
                     !.P.open_positions = SubSeq(@, 1, Len(@) - 1),
                     !.notifications = SubSeq(@, 1, Len(@) - 1),
                     !.added = <<>>]]

\* Ctrl+C while run_cycle is executing
InterruptCycle(inp, at) ==
    /\ run.pc = "cycle"
    /\ run.running
    /\ cycle_count < MaxCycles
    /\ Read(positions, inp)
    /\ \E r \in {run_cycle(positions, cycle_count + 1, config, now, market, inp)} :
         /\ at = "order" => (r.entered /\ r.entry_orders > 0)
         /\ CycleResult(Interrupted(r, positions, now, at), inp)
    /\ run' = [run EXCEPT !.pc = "finally", !.interrupted = "cycle"]

\* run() lines 581-603
Shutdown ==
    /\ run.pc = "finally"
    /\ run' = Finally(run)
    /\ UNCHANGED <<positions, now, market, config, cycle_count, call, hist, pure>>

RunInputs == CycleInputs({Calm}, {NoElapsed})

RunNext ==
    \/ RunStart
    \/ \E outcome \in {"ok", "error"} : Connect(outcome)
    \/ \E inp \in RunInputs, raises \in {"none", "start", "end"}, sent \in BOOLEAN :
         LoopCycle(inp, raises, sent)
    \/ Sleep
    \/ Interrupt
    \/ \E inp \in RunInputs, at \in {"gate", "order"} : InterruptCycle(inp, at)
    \/ Shutdown

\* run() is sequential code: connect() returns or raises, time.sleep returns
\* and the finally block runs once they are reached; only the interrupt may
\* never come
SpecRun ==
    /\ Init
    /\ [][RunNext]_vars
    /\ WF_vars(RunStart)
    /\ WF_vars(\E outcome \in {"ok", "error"} : Connect(outcome))
    /\ WF_vars(Sleep)
    /\ WF_vars(Shutdown)

----------------------------------------------------------------------------
(* The bot driven by cycles whose scans find signals of any score and fail *)

\* The world during one cycle of this specification: the market is bullish,
\* nothing calls for an emergency exit, and the scan of a ticker finds any of
\* the scan cases, those where an Exception is raised included.
ScanInputs ==
    [bullish : {TRUE}, em : {[t \in Tickers |-> Calm]}, scans : [Tickers -> ScanCases],
     env : CycleEnvs, elapsed : {NoElapsed}]

ScanNext == \E inp \in ScanInputs : RunCycle(inp)

SpecScan == Init /\ [][ScanNext]_vars

----------------------------------------------------------------------------
(* The bot configured with any MAX_POSITIONS, run until its ledger is full *)

\* largest configured MAX_POSITIONS of this specification
MaxCapacity == 6
\* trading cycles per behaviour of this specification
MaxCapacityCycles == 6

CapacityConfigs == [MAX_POSITIONS : 1..MaxCapacity, DRY_RUN_MODE : {TRUE}]

CapacityInit ==
    /\ positions = EmptyLedger
    /\ market = [t \in Tickers |-> 200]
    /\ config \in CapacityConfigs
    /\ cycle_count = 0
    /\ call = NoCall
    /\ hist = NoHist
    /\ pure = None
    /\ run = NoRun
    /\ now = [day |-> 0, minute |-> EXCLUDED_END]

CapacityCycle(inp) ==
    /\ cycle_count < MaxCapacityCycles
    /\ Cycle(inp)

CapacityNext ==
    \E inp \in CycleInputs({Calm}, {NoElapsed}) : CapacityCycle(inp)

SpecCapacity == CapacityInit /\ [][CapacityNext]_vars

----------------------------------------------------------------------------
(* The bot started at any time of the week; the scan of a ticker takes time *)

\* minutes the scan of one ticker can take
MaxElapsed == 1

\* the instants around the gates of the time filter, on a Monday and a Saturday
ClockInstants ==
    [day : {0, 5},
     minute : {MARKET_OPEN - 1, MARKET_OPEN, EXCLUDED_END - 1, EXCLUDED_END,
               MARKET_CLOSE - 1, MARKET_CLOSE}]

ClockInit ==
    /\ InitCommon
    /\ pure = None
    /\ now \in ClockInstants

ClockNext ==
    \E inp \in CycleInputs({Calm}, [Tickers -> 0..MaxElapsed]) : RunCycle(inp)

SpecClock == ClockInit /\ [][ClockNext]_vars

----------------------------------------------------------------------------
(* validate_all_filters on every combination of filter outcomes *)

FilterInstants == {t \in ClockInstants : t.day = 0 /\ t.minute \in {EXCLUDED_END - 1, EXCLUDED_END}}

FiltersInit ==
    /\ InitCommon
    /\ now \in FilterInstants
    /\ pure \in [phase : {"in"}, ticker : Tickers, outcome : FilterOutcomes]

ValidateAllFilters ==
    /\ pure # None
    /\ pure.phase = "in"
    /\ pure' = [phase |-> "out", ticker |-> pure.ticker, outcome |-> pure.outcome,
                ret |-> validate_all_filters(pure.outcome, now)]
    /\ UNCHANGED <<positions, now, market, config, cycle_count, call, hist, run>>

FiltersNext == ValidateAllFilters

SpecFilters == FiltersInit /\ [][FiltersNext]_vars

----------------------------------------------------------------------------
(* The news filters and the emergency check on every answer of the provider *)

\* spread_pct of get_orderflow in hundredths of a percent: none, narrow, wide
\* none, 0.10 %, twice the ceiling (1.00 %), three times it, 2.00 %
Spreads == {NoOrderflow, 10, 100, 150, 200}

NewsInit ==
    /\ InitCommon
    /\ now = [day |-> 0, minute |-> EXCLUDED_END]
    /\ pure \in [phase : {"in"}, ticker : Tickers,
                  earnings : [status : Statuses, data : EarningsBodies],
                  news : [status : Statuses, data : ItemBodies],
                  ratings : [status : Statuses, data : ItemBodies],
                  spread : Spreads]

CheckNews ==
    /\ pure # None
    /\ pure.phase = "in"
    /\ pure' = [pure EXCEPT !.phase = "out"] @@
               [passed |-> [earnings |-> filter_earnings(pure.ticker, pure.earnings),
                            negative_news |-> filter_negative_news(pure.news),
                            downgrade |-> filter_downgrade(pure.ratings)],
                emergency |-> check_emergency_exit_conditions(
                                  EmergencyData(pure.news, pure.ratings, pure.spread))]
    /\ UNCHANGED <<positions, now, market, config, cycle_count, call, hist, run>>

NewsNext == CheckNews

SpecNews == NewsInit /\ [][NewsNext]_vars

----------------------------------------------------------------------------
(* check_daily_loss_limit on ledgers with closed positions around the limit *)

\* closed positions of the ledger the bot starts with
MaxClosed == 2

\* exit prices of one share bought at 400: PnL -201, -200, -199, -100, +50
LossExits == {199, 200, 201, 300, 450}

\* a position closed on the given day, as add_position and close_position
\* record it
ClosedAt(ticker, exit_price, day) ==
    LET entered == add_position(EmptyLedger, ticker, 400, 1, 380, 480,
                                [day |-> day, minute |-> EXCLUDED_END])
    IN ClosedRecord(entered.open_positions[1], exit_price, "URGENCE: News",
                    [day |-> day, minute |-> MARKET_CLOSE - 1])

ClosedRecords == {ClosedAt("AAPL", x, d) : x \in LossExits, d \in {0, 1}}

RECURSIVE SeqsUpTo(_, _)
\* the sequences over S of length at most n
SeqsUpTo(S, n) ==
    IF n = 0 THEN {<<>>}
    ELSE SeqsUpTo(S, n - 1)
         \cup {Append(q, x) : q \in {r \in SeqsUpTo(S, n - 1) : Len(r) = n - 1}, x \in S}

\* the bot starts on a Tuesday with the ledger its positions file holds
LossInit ==
    /\ positions \in {update_statistics([EmptyLedger EXCEPT !.closed_positions = c]) :
                         c \in SeqsUpTo(ClosedRecords, MaxClosed)}
    /\ now = [day |-> 1, minute |-> EXCLUDED_END]
    /\ market = [t \in Tickers |-> 200]
    /\ config = [MAX_POSITIONS |-> MaxConfiguredPositions, DRY_RUN_MODE |-> TRUE]
    /\ cycle_count = 0
    /\ call = NoCall
    /\ hist = NoHist
    /\ run = NoRun
    /\ pure = [phase |-> "in"]

CheckDailyLossLimit ==
    /\ pure.phase = "in"
    /\ pure' = [phase |-> "out",
                daily_pnl |-> get_daily_pnl(positions, now),
                ret |-> check_daily_loss_limit(positions, now)]
    /\ UNCHANGED <<positions, now, market, config, cycle_count, call, hist, run>>

LossNext == CheckDailyLossLimit

SpecLoss == LossInit /\ [][LossNext]_vars

----------------------------------------------------------------------------
(* calculate_position_size on every price up to beyond the position value *)

\* largest price sized, in dollars: above capital x POSITION_SIZE_PCT = 2000
MaxSizedPrice == 2100

SizeInit ==
    /\ InitCommon
    /\ config.MAX_POSITIONS = MaxConfiguredPositions
    /\ config.DRY_RUN_MODE
    /\ now = [day |-> 0, minute |-> EXCLUDED_END]
    /\ pure \in [phase : {"in"}, price : 1..MaxSizedPrice]

CalculatePositionSize ==
    /\ pure.phase = "in"
    /\ pure' = [phase |-> "out", price |-> pure.price,
                ret |-> calculate_position_size(pure.price)]
    /\ UNCHANGED <<positions, now, market, config, cycle_count, call, hist, run>>

SizeNext == CalculatePositionSize

SpecSize == SizeInit /\ [][SizeNext]_vars

----------------------------------------------------------------------------
(* scan_ticker on every outcome of its five stages *)

Confidences == {NoPattern, 70, 75, 80, 85, 90}
\* volume ratios of a breakout, in tenths, around the bonus threshold 2.0
VolumeRatios == {15, 20, 21, 25}
\* bid pressures of a bullish orderflow, in percent, around the threshold 60
BidPressures == {56, 60, 61, 65}

ScoreCases ==
    [filters : {AllPass, [AllPass EXCEPT !["earnings"] = FALSE]},
     pattern : Confidences, volume_ok : BOOLEAN, breakout_ok : BOOLEAN,
     volume_ratio : VolumeRatios, bid_pressure : BidPressures,
     raises : {"none"}]

ScoreInit ==
    /\ InitCommon
    /\ config.MAX_POSITIONS = MaxConfiguredPositions
    /\ config.DRY_RUN_MODE
    /\ now = [day |-> 0, minute |-> EXCLUDED_END]
    /\ pure \in [phase : {"in"}, sc : ScoreCases]

ScanTicker ==
    /\ pure.phase = "in"
    /\ pure' = [phase |-> "out", sc |-> pure.sc,
                ret |-> scan_ticker("AAPL", pure.sc, now)]
    /\ UNCHANGED <<positions, now, market, config, cycle_count, call, hist, run>>

ScoreNext == ScanTicker

SpecScore == ScoreInit /\ [][ScoreNext]_vars

----------------------------------------------------------------------------
(* validate_breakout_with_orderflow on frames and quotes around its thresholds *)

BreakoutFrames ==
    [enough : BOOLEAN, open : {9, 11}, close : {10, 12}, resistance : {10, 11},
     volume : {14, 15, 25}, avg_volume : {0, 10}]

Orderflows ==
    {None} \cup [bid_pressure : {55, 56, 65},
                 spread_pct : {SPREAD_MAX_PCT - 1, SPREAD_MAX_PCT}]

BreakoutInit ==
    /\ InitCommon
    /\ config.MAX_POSITIONS = MaxConfiguredPositions
    /\ config.DRY_RUN_MODE
    /\ now = [day |-> 0, minute |-> EXCLUDED_END]
    /\ pure \in [phase : {"in"}, df : BreakoutFrames, orderflow : Orderflows]

ValidateBreakoutWithOrderflow ==
    /\ pure.phase = "in"
    /\ pure' = [phase |-> "out", df |-> pure.df, orderflow |-> pure.orderflow,
                ret |-> validate_breakout_with_orderflow(pure.df, pure.orderflow)]
    /\ UNCHANGED <<positions, now, market, config, cycle_count, call, hist, run>>

BreakoutNext == ValidateBreakoutWithOrderflow

SpecBreakout == BreakoutInit /\ [][BreakoutNext]_vars

----------------------------------------------------------------------------
(* The one-candle detectors on every candle of a grid *)

\* largest high - low of a candle, in ticks: 35 % of 20 is a whole number
MaxRange == 20

\* every candle with low in lows, range at most max_range, and open and close
\* between low and high
Candles(lows, max_range) ==
    UNION {{[open |-> o, high |-> l + r, low |-> l, close |-> c] :
                o \in l..(l + r), c \in l..(l + r)} :
           l \in lows, r \in 0..max_range}

\* flat candles whose open and close lie outside high = low (bad data)
FlatCandles ==
    {[open |-> 3, high |-> 2, low |-> 2, close |-> 1],
     [open |-> 1, high |-> 2, low |-> 2, close |-> 3]}

CandleInit ==
    /\ InitCommon
    /\ config.MAX_POSITIONS = MaxConfiguredPositions
    /\ config.DRY_RUN_MODE
    /\ now = [day |-> 0, minute |-> EXCLUDED_END]
    /\ pure \in [phase : {"in"}, candle : Candles({1, 2}, MaxRange) \cup FlatCandles]

DetectShapes ==
    /\ pure.phase = "in"
    /\ pure' = [phase |-> "out", candle |-> pure.candle,
                ret |-> [hammer |-> detect_hammer(pure.candle),
                         inverted_hammer |-> detect_inverted_hammer(pure.candle),
                         doji |-> detect_doji(pure.candle),
                         hanging_man |-> detect_hanging_man(pure.candle),
                         shooting_star |-> detect_shooting_star(pure.candle)]]
    /\ UNCHANGED <<positions, now, market, config, cycle_count, call, hist, run>>

CandleNext == DetectShapes

SpecCandle == CandleInit /\ [][CandleNext]_vars

----------------------------------------------------------------------------
(* detect_bullish_pattern and scan_ticker on frames of three and four candles *)

\* largest high - low of the last candle of a frame, in ticks
MaxWindowRange == 10

\* a green and a red candle
FirstCandles ==
    {[open |-> 1, high |-> 4, low |-> 1, close |-> 4],
     [open |-> 6, high |-> 6, low |-> 5, close |-> 5]}

\* a green candle, a small and a large red one, and a doji
PrevCandles ==
    {[open |-> 2, high |-> 5, low |-> 2, close |-> 5],
     [open |-> 8, high |-> 9, low |-> 6, close |-> 7],
     [open |-> 10, high |-> 11, low |-> 5, close |-> 6],
     [open |-> 5, high |-> 6, low |-> 4, close |-> 5]}

Windows ==
    LET three == {<<c1, c2, c3>> : c1 \in FirstCandles, c2 \in PrevCandles,
                                   c3 \in Candles({2, 3}, MaxWindowRange)}
    IN three \cup {<<[open |-> 3, high |-> 4, low |-> 2, close |-> 2]>> \o w :
                      w \in three}

\* what the rest of one scan reads: the volume of the last candle, the mean
\* volume of the candles before it, and the answer of the breakout validation
ScanData == [volume : {4, 12}, avg_volume : {10}, breakout_ok : BOOLEAN]

PatternInit ==
    /\ InitCommon
    /\ config.MAX_POSITIONS = MaxConfiguredPositions
    /\ config.DRY_RUN_MODE
    /\ now = [day |-> 0, minute |-> EXCLUDED_END]
    /\ pure \in [phase : {"in"}, df : Windows]

DetectBullishPattern ==
    /\ pure.phase = "in"
    /\ pure' = [phase |-> "out", op |-> "detect", df |-> pure.df,
                ret |-> detect_bullish_pattern(pure.df)]
    /\ UNCHANGED <<positions, now, market, config, cycle_count, call, hist, run>>

\* scan_ticker when the stock-emotion filter (line 237) and the pattern
\* detection (lines 253-257) read the same frame and the other filters pass
ScanBars(v) ==
    /\ pure.phase = "in"
    /\ LET found == detect_bullish_pattern(pure.df)
           sc == [filters |->
                      [AllPass EXCEPT !["stock"] =
                          filter_stock_emotion(pure.df, v.volume, v.avg_volume).passed],
                  pattern |-> IF found = None THEN NoPattern ELSE found.confidence,
                  volume_ok |-> validate_volume(v.volume, v.avg_volume),
                  breakout_ok |-> v.breakout_ok,
                  volume_ratio |-> 25, bid_pressure |-> 65, raises |-> "none"]
       IN pure' = [phase |-> "out", op |-> "scan", df |-> pure.df, sc |-> sc,
                   volume |-> v.volume, avg_volume |-> v.avg_volume,
                   ret |-> scan_ticker("AAPL", sc, now)]
    /\ UNCHANGED <<positions, now, market, config, cycle_count, call, hist, run>>

PatternNext ==
    \/ DetectBullishPattern
    \/ \E v \in ScanData : ScanBars(v)

SpecPattern == PatternInit /\ [][PatternNext]_vars

----------------------------------------------------------------------------
(* Claims on the ledger *)

BothLists(P) == OpenTickers(P) \cap ClosedTickers(P)

\* C5, as stated: after any sequence of add_position / close_position
\* operations, re-entries included, no ticker is in open_positions and in
\* closed_positions at the same time.
C5_NoTickerInBothLists == BothLists(positions) = {}

\* C5, amended: a ticker is in open_positions and in closed_positions at the
\* same time only if add_position was called for it after one of its positions
\* was closed; close_position itself never leaves its ticker in both lists.
C5_BothListsOnlyAfterReentry == BothLists(positions) \subseteq hist.reentered

C5_ReenteredTickerInBothLists ==
    /\ hist.reentered # {}
    /\ BothLists(positions) = hist.reentered
    /\ call.op = "add_position"

\* C6: in every reachable state |open_positions| + |closed_positions| is the
\* number of add_position calls made since the empty ledger (every successful
\* close_position removes exactly one open position and appends exactly one
\* closed record).
C6_OpenPlusClosedIsAdds ==
    Len(positions.open_positions) + Len(positions.closed_positions) = hist.adds

\* C7: add_position(T, p, ...) from a ledger with no open position of T,
\* immediately followed by close_position(T, exit_price = p, reason), returns a
\* closed record with pnl = 0 and pnl_pct = 0, leaves open_positions as it was
\* before the add, and appends exactly that one record to closed_positions.
C7_RoundTrip ==
    hist.trip.phase = 2 =>
        /\ call.op = "close_position"
        /\ call.ret # None
        /\ call.ret.pnl = 0
        /\ call.ret.pnl_pct.num = 0
        /\ positions.open_positions = hist.trip.open0
        /\ positions.closed_positions = Append(hist.trip.closed0, call.ret)

C7_RoundTripOnUsedLedger ==
    /\ hist.trip.phase = 2
    /\ hist.trip.open0 # <<>>
    /\ call.op = "close_position"

ExitNotifications == {"take_profit", "stop_loss", "emergency_exit"}

\* C8: close_position for a ticker with no open position returns None and
\* leaves open_positions, closed_positions and statistics unchanged;
\* exit_position for such a ticker fails and requests no exit notification.
C8_MissingPositionIsNoOp ==
    [][(/\ call'.op \in {"close_position", "exit_position"}
        /\ hist'.ops = hist.ops + 1
        /\ call'.ticker \notin OpenTickers(positions))
       => /\ positions' = positions
          /\ call'.ret = None
          /\ ~call'.ok
          /\ \A i \in DOMAIN call'.notifications :
                 call'.notifications[i] \notin ExitNotifications]_vars

C8_MissingPositionOnUsedLedger ==
    /\ call.op = "exit_position"
    /\ ~call.ok
    /\ call.ticker \notin OpenTickers(positions)
    /\ positions.open_positions # <<>>

\* C14: in dry-run mode enter_position and exit_position never place a broker
\* order, while the ledger is updated as in live mode: in either mode a
\* successful entry appends the position (ticker, ask, size, stop, target) to
\* open_positions and leaves closed_positions alone, and a successful exit
\* removes the ticker from open_positions and appends its closed record to
\* closed_positions.
C14_DryRunUpdatesLedgerWithoutOrders ==
    [][(call'.op \in {"enter_position", "exit_position"} /\ hist'.ops = hist.ops + 1) =>
         /\ config.DRY_RUN_MODE => call'.orders = 0
         /\ (call'.op = "enter_position" /\ call'.ok) =>
              /\ Len(positions'.open_positions) = Len(positions.open_positions) + 1
              /\ SubSeq(positions'.open_positions, 1, Len(positions.open_positions))
                   = positions.open_positions
              /\ LET p == positions'.open_positions[Len(positions'.open_positions)]
                 IN /\ p.ticker = call'.ticker
                    /\ p.entry_price = market[call'.ticker]
                    /\ p.quantity * p.entry_price <= (capital * 20) \div 100
                    /\ (p.quantity + 1) * p.entry_price > (capital * 20) \div 100
                    /\ p.stop_loss * 100 = p.entry_price * 95
                    /\ p.take_profit * 100 = p.entry_price * 120
              /\ positions'.closed_positions = positions.closed_positions
         /\ (call'.op = "exit_position" /\ call'.ok) =>
              /\ call'.ticker \in OpenTickers(positions)
              /\ call'.ticker \notin OpenTickers(positions')
              /\ \A i \in DOMAIN positions'.open_positions :
                     \E j \in DOMAIN positions.open_positions :
                         positions'.open_positions[i] = positions.open_positions[j]
              /\ positions'.closed_positions =
                     Append(positions.closed_positions, call'.ret)
              /\ call'.ret.ticker = call'.ticker
              /\ call'.ret.exit_price = market[call'.ticker]]_vars

C14_DryRunEntryThenExit ==
    /\ config.DRY_RUN_MODE
    /\ call.op = "exit_position"
    /\ call.ok
    /\ call.orders = 0
    /\ hist.ops = 2
    /\ call.ticker \in ClosedTickers(positions)
    /\ call.ticker \notin OpenTickers(positions)
    /\ \E i \in DOMAIN positions.closed_positions :
          positions.closed_positions[i].entry_price = market[call.ticker]

----------------------------------------------------------------------------
(* Claims on the trading cycles *)

\* C1: after any sequence of trading cycles from the empty ledger,
\* open_positions holds at most one position per ticker.
C1_OnePositionPerTicker ==
    \A i, j \in DOMAIN positions.open_positions :
        i # j => positions.open_positions[i].ticker # positions.open_positions[j].ticker

\* C2: in every state reachable by trading cycles from the empty ledger the
\* number of open positions is at most MAX_POSITIONS.
C2_OpenWithinMaxPositions ==
    Len(positions.open_positions) <= config.MAX_POSITIONS

C2_CycleRefusedAtCapacity ==
    /\ call.op = "run_cycle"
    /\ call.cycle.stage = "risk"
    /\ Len(positions.open_positions) = config.MAX_POSITIONS
    /\ \E i \in DOMAIN call.notifications : call.notifications[i] = "pause"

DailyLossAmount == (capital * DAILY_LOSS_LIMIT) \div 100
WeeklyLossAmount == (capital * WEEKLY_LOSS_LIMIT) \div 100

BeyondThreshold(p) ==
    market[p.ticker] <= p.stop_loss \/ market[p.ticker] >= p.take_profit

\* C4: in a cycle that reaches position monitoring (with the data source and
\* the broker working), every open position whose current price is
\* <= stop_loss or >= take_profit is closed: it is in closed_positions with
\* reason STOP_LOSS or TAKE_PROFIT.
C4_StopLossTakeProfitApplied ==
    (/\ call.op = "run_cycle"
     /\ call.cycle.stage = "done"
     /\ call.cycle.env = [fetch |-> "ok", broker |-> "ok"])
    => \A i \in DOMAIN call.cycle.monitored :
         LET p == call.cycle.monitored[i]
         IN BeyondThreshold(p) =>
              \E j \in DOMAIN positions.closed_positions :
                 LET c == positions.closed_positions[j]
                 IN /\ c.ticker = p.ticker
                    /\ c.entry_time = p.entry_time
                    /\ c.exit_reason \in {"STOP_LOSS", "TAKE_PROFIT"}

\* a weekday, session open <= t < session close, outside [09:30, 10:15)
PermittedInstant(t) ==
    /\ (t.day % 7) \in 0..4
    /\ 570 <= t.minute /\ t.minute < 960
    /\ ~(570 <= t.minute /\ t.minute < 615)

\* C9: every position is added to the ledger at a permitted instant: a weekday,
\* session open <= t < session close, outside the excluded window
\* [09:30, 10:15), even though the scan before the entry takes time.
C9_EntriesOnlyInTradingTime ==
    \A i \in DOMAIN positions.open_positions :
        PermittedInstant(positions.open_positions[i].entry_time)

\* the cycle that has just run stopped at the time or the market gate
GateFailed == call'.op = "run_cycle" /\ cycle_count' = cycle_count + 1
              /\ call'.cycle.stage \in {"time", "market"}

\* what a cycle stopped at a gate leaves alone, whatever the cycle
GateFrame ==
    /\ positions' = positions
    /\ call'.cycle.monitored = <<>>
    /\ call'.cycle.scanned = <<>>
    /\ call'.orders = 0

\* C11, as stated: if the time filter or the market-emotion filter fails at the
\* start of run_cycle, the cycle has no side effects: the ledger is unchanged,
\* no position is monitored, no ticker is scanned, no order is placed and no
\* notification is emitted, in the first cycle as in every later one.
C11_GateFailureHasNoSideEffects ==
    [][GateFailed => (GateFrame /\ call'.notifications = <<>>)]_vars

\* C11, amended: such a cycle leaves the ledger unchanged, monitors no
\* position, scans no ticker and places no order; it emits no notification,
\* except that the first cycle of the bot emits one market-unfavourable
\* notification when it is the market-emotion filter that fails.
C11_GateFailureOnlyNotifiesFirstCycle ==
    [][GateFailed =>
         /\ GateFrame
         /\ call'.notifications =
              IF call'.cycle.stage = "market" /\ cycle_count' = 1
              THEN <<"market_unfavorable">> ELSE <<>>]_vars

C11_LaterCycleStoppedAtMarketGate ==
    /\ call.op = "run_cycle"
    /\ call.cycle.stage = "market"
    /\ cycle_count = 2
    /\ positions.open_positions # <<>>
    /\ call.notifications = <<>>

\* C12: in a cycle that passed the time, market and can_trade gates, the
\* watchlist is scanned iff the number of open positions after monitoring is
\* < the configured MAX_POSITIONS, for every configured value of MAX_POSITIONS
\* (values greater than 5 included).
C12_ScanIffBelowMaxPositions ==
    (call.op = "run_cycle" /\ call.cycle.stage = "done") =>
        ((call.cycle.scanned # <<>>) <=> (call.cycle.open_count < config.MAX_POSITIONS))

\* the signals of the last cycle's scan, by ticker
SignalOf(ticker) ==
    {call.cycle.signals[i] : i \in {j \in DOMAIN call.cycle.signals :
                                       call.cycle.signals[j].ticker = ticker}}

\* C13: each run_cycle adds at most one position to the ledger, and when it
\* adds one, its ticker is a valid signal of that cycle's scan whose score is
\* >= the score of every other valid signal of the same scan.
C13_OneEntryOfBestSignal ==
    [][(call'.op = "run_cycle" /\ cycle_count' = cycle_count + 1) =>
         /\ hist'.adds <= hist.adds + 1
         /\ hist'.adds = hist.adds + 1 =>
              LET open == positions'.open_positions
                  added == open[Len(open)]
                  signals == call'.cycle.signals
              IN /\ Len(open) >= 1
                 /\ \E i \in DOMAIN signals :
                       /\ signals[i].ticker = added.ticker
                       /\ call'.cycle.scans # None
                       /\ scan_ticker(added.ticker, call'.cycle.scans[added.ticker],
                                      now).valid
                       /\ \A j \in DOMAIN signals :
                              signals[j].score <= signals[i].score]_vars

C13_BestSignalIsLaterInWatchlist ==
    /\ call.op = "run_cycle"
    /\ call.ok
    /\ Len(call.cycle.signals) = 2
    /\ call.cycle.signals[1].score > call.cycle.signals[2].score
    /\ call.cycle.signals[1].ticker = all_tickers[2]
    /\ positions.open_positions # <<>>
    /\ positions.open_positions[Len(positions.open_positions)].ticker = all_tickers[2]

\* C18: in scan_watchlist an error raised while scanning one ticker (or while
\* notifying its signal) aborts only that ticker: every ticker of the watchlist
\* is still scanned, every valid signal found for the other tickers is in the
\* returned list, and the list is sorted by descending score.
C18_ScanErrorAbortsOneTicker ==
    (call.op = "run_cycle" /\ call.cycle.scanned # <<>>) =>
        /\ call.cycle.scanned = all_tickers
        /\ \A k \in Tickers :
              (/\ call.cycle.scans[k].raises = "none"
               /\ scan_ticker(k, call.cycle.scans[k], now).valid)
              => \E sig \in SignalOf(k) :
                     sig.score = scan_ticker(k, call.cycle.scans[k], now).score
        /\ \A i, j \in DOMAIN call.cycle.signals :
              i < j => call.cycle.signals[i].score >= call.cycle.signals[j].score

C18_SignalFoundAfterFailedTicker ==
    /\ call.op = "run_cycle"
    /\ call.cycle.scanned = all_tickers
    /\ call.cycle.scans[all_tickers[1]].raises = "scan"
    /\ call.cycle.scans[all_tickers[2]].raises = "none"
    /\ SignalOf(all_tickers[2]) # {}
    /\ SignalOf(all_tickers[1]) = {}

----------------------------------------------------------------------------
(* Claims on run() *)

C17_ShutdownAlwaysComplete ==
    run.pc = "done" =>
        /\ ~run.running
        /\ ~run.connected
        /\ run.shutdown = <<"running_false", "disconnect", "summary">>

C17_TerminatedWithoutInterrupt ==
    /\ run.pc = "done"
    /\ run.interrupted = "no"
    /\ run.connect_failed
    /\ run.shutdown # <<>>

----------------------------------------------------------------------------
(* Claims on the loss limits *)

RECURSIVE PnlOfDay(_, _, _)
\* the sum of pnl over the first n closed positions whose exit day is day
PnlOfDay(closed, n, day) ==
    IF n = 0 THEN 0
    ELSE PnlOfDay(closed, n - 1, day)
         + (IF closed[n].exit_time.day = day THEN closed[n].pnl ELSE 0)

\* C20: check_daily_loss_limit returns false iff daily_pnl <=
\* -(capital x DAILY_LOSS_LIMIT), where daily_pnl is the sum of pnl over the
\* closed positions whose exit date is the current day; with capital 10000
\* and limit 0.02, -201 and -200 fail and -199 passes.
C20_DailyLossLimitAtThreshold ==
    pure.phase = "out" =>
        LET daily == PnlOfDay(positions.closed_positions,
                              Len(positions.closed_positions), now.day)
        IN /\ pure.daily_pnl = daily
           /\ (pure.ret = FALSE) <=> (daily * 100 <= -(10000 * 2))
           /\ daily \in {-201, -200} => pure.ret = FALSE
           /\ daily = -199 => pure.ret = TRUE

C20_ExactlyAtLimitWithOlderLoss ==
    /\ pure.phase = "out"
    /\ pure.daily_pnl = -200
    /\ pure.ret = FALSE
    /\ \E i \in DOMAIN positions.closed_positions :
          /\ positions.closed_positions[i].exit_time.day # now.day
          /\ positions.closed_positions[i].pnl < 0

\* C21: for every price > 0, calculate_position_size(price) is
\* max(1, floor(capital x POSITION_SIZE_PCT / price)): never 0, 13 for price
\* 150 (capital 10000, 0.20), and 1 whenever price exceeds
\* capital x POSITION_SIZE_PCT.
C21_PositionSizeIsFlooredAtOne ==
    pure.phase = "out" =>
        /\ pure.ret >= 1
        /\ pure.price <= 2000 =>
              /\ pure.ret * pure.price <= 2000
              /\ (pure.ret + 1) * pure.price > 2000
        /\ pure.price > 2000 => pure.ret = 1
        /\ pure.price = 150 => pure.ret = 13

C21_PriceAbovePositionValue ==
    /\ pure.phase = "out"
    /\ pure.price > 2000
    /\ pure.ret = 1

\* C22: the score of a valid signal is min(100, pattern confidence + 10 if
\* the breakout's volume_ratio > 2.0 + 5 if bid_pressure > 60), the comparisons
\* being strict (2.0 and 60 earn nothing); Hammer 75 with volume_ratio 2.5 and
\* bid_pressure 65 scores 90; a scan result that is not valid has score 0.
C22_ScoreOfSignal ==
    pure.phase = "out" =>
        LET sc == pure.sc
            volume_bonus == IF sc.volume_ratio \in {21, 25} THEN 10 ELSE 0
            bid_bonus == IF sc.bid_pressure \in {61, 65} THEN 5 ELSE 0
            total == sc.pattern + volume_bonus + bid_bonus
        IN /\ pure.ret.valid =>
                /\ pure.ret.score = IF total < 100 THEN total ELSE 100
                /\ (sc.pattern = 75 /\ sc.volume_ratio = 25 /\ sc.bid_pressure = 65)
                     => pure.ret.score = 90
           /\ ~pure.ret.valid => pure.ret.score = 0

C22_ValidSignalAtBothThresholds ==
    /\ pure.phase = "out"
    /\ pure.ret.valid
    /\ pure.sc.volume_ratio = 20
    /\ pure.sc.bid_pressure = 60
    /\ pure.ret.score = pure.sc.pattern

\* C23: check_emergency_exit_conditions asks, in this order, for negative news
\* of the last 10 minutes, for a downgrade of the last day and for a spread
\* above twice the normal ceiling; it returns the reason of the first that
\* holds without asking the later ones (news wins over a spread of three times
\* the ceiling), and returns "no exit" iff none holds.
C23_FirstEmergencyWins ==
    (pure # None /\ pure.phase = "out") =>
        LET e == pure.emergency
            news == has_negative_news(pure.news).has
            downgrade == has_recent_downgrade(pure.ratings).has
            spread == pure.spread > 2 * SPREAD_MAX_PCT
        IN /\ news => (e.exit /\ e.reason = "News" /\ e.calls = <<"news">>)
           /\ (~news /\ downgrade) =>
                (e.exit /\ e.reason = "Downgrade" /\ e.calls = <<"news", "ratings">>)
           /\ (~news /\ ~downgrade /\ spread) =>
                (e.exit /\ e.reason = "Spread"
                 /\ e.calls = <<"news", "ratings", "orderflow">>)
           /\ ~e.exit <=> ~(news \/ downgrade \/ spread)
           /\ ~e.exit => e.reason = "OK"

C23_NewsWithTripleSpread ==
    /\ pure # None
    /\ pure.phase = "out"
    /\ has_negative_news(pure.news).has
    /\ pure.spread = 3 * SPREAD_MAX_PCT
    /\ pure.emergency.reason = "News"

\* C24: validate_breakout_with_orderflow has exactly three outcomes: when the
\* breakout test fails it is invalid with the "no breakout" reason and a null
\* orderflow field, and the live quote is not fetched; when the breakout passes
\* and the orderflow test fails it is invalid with the "orderflow not
\* favorable" reason; it is valid iff both tests pass.
C24_BreakoutThenOrderflow ==
    pure.phase = "out" =>
        LET df == pure.df
            r == pure.ret
            breakout == /\ df.enough
                        /\ df.close > df.resistance
                        /\ df.close > df.open
                        /\ df.avg_volume > 0
                        /\ 2 * df.volume >= 3 * df.avg_volume
            bullish == /\ pure.orderflow # None
                       /\ pure.orderflow.bid_pressure > 55
                       /\ pure.orderflow.spread_pct < SPREAD_MAX_PCT
        IN /\ ~breakout =>
                /\ ~r.is_valid
                /\ r.details.reason = "Pas de breakout"
                /\ r.details.orderflow = None
                /\ r.calls = <<"get_ohlcv">>
           /\ (breakout /\ ~bullish) =>
                (~r.is_valid /\ r.details.reason = "Orderflow non favorable")
           /\ r.is_valid <=> (breakout /\ bullish)
           /\ r.details.valid = r.is_valid
           /\ r.is_valid => r.details.reason = "Breakout valide"

C24_NoBreakoutWithBullishQuote ==
    /\ pure.phase = "out"
    /\ pure.df.enough
    /\ pure.df.close <= pure.df.resistance
    /\ pure.orderflow # None
    /\ pure.orderflow.bid_pressure > 55
    /\ pure.orderflow.spread_pct < SPREAD_MAX_PCT
    /\ ~pure.ret.is_valid
    /\ pure.ret.details.orderflow = None

\* C29: once the number of open positions has reached MAX_POSITIONS, every
\* later run_cycle returns at the can_trade gate, before the monitoring of the
\* positions (or at the time or market gate before it), so open_positions and
\* closed_positions never change again: no emergency exit is performed and the
\* bot frees no capacity.
C29_FullLedgerIsFrozen ==
    [][Len(positions.open_positions) >= config.MAX_POSITIONS =>
         /\ positions' = positions
         /\ (call'.op = "run_cycle" /\ cycle_count' = cycle_count + 1) =>
              /\ call'.cycle.stage \in {"time", "market", "risk"}
              /\ (filter_time(now) /\ call'.cycle.stage # "market")
                   => call'.cycle.stage = "risk"
              /\ call'.cycle.monitored = <<>>
              /\ call'.orders = 0]_vars

C29_EmergencyNotHandledAtCapacity ==
    /\ call.op = "run_cycle"
    /\ cycle_count = 2
    /\ call.cycle.stage = "risk"
    /\ Len(positions.open_positions) >= config.MAX_POSITIONS
    /\ \E i \in DOMAIN positions.open_positions :
          call.cycle.em[positions.open_positions[i].ticker].news
    /\ positions.closed_positions = <<>>

----------------------------------------------------------------------------
(* Claims on the candlestick patterns *)

\* the candle with every price x replaced by high + low - x
Reflect(candle) ==
    [open |-> candle.high + candle.low - candle.open,
     high |-> candle.high,
     low |-> candle.low,
     close |-> candle.high + candle.low - candle.close]

\* C26: detect_hammer(bar) is true iff range > 0, body <= 35 % of range,
\* lower shadow >= 2 x body, upper shadow <= 10 % of range, and the low edge of
\* the body, min(open, close), lies at >= 80 % of the range above the low.
C26_HammerBodyInUpperFifth ==
    pure.phase = "out" =>
        LET c == pure.candle
            range == c.high - c.low
            body == Abs(c.close - c.open)
            lower == Min(c.open, c.close) - c.low
            upper == c.high - Max(c.open, c.close)
        IN pure.ret.hammer <=>
               /\ range > 0
               /\ 100 * body <= 35 * range
               /\ lower >= 2 * body
               /\ 10 * upper <= range
               /\ 10 * (Min(c.open, c.close) - c.low) >= 8 * range

\* C27: detect_inverted_hammer is the vertical mirror of detect_hammer: for
\* every bar b, detect_inverted_hammer(b) = detect_hammer(reflect(b)), reflect
\* mapping every price x of the bar to high + low - x.
C27_InvertedHammerMirrorsHammer ==
    pure.phase = "out" =>
        (pure.ret.inverted_hammer <=> detect_hammer(Reflect(pure.candle)))

\* C28: for every bar with high = low, detect_doji is true and detect_hammer
\* and detect_inverted_hammer (hence hanging man and shooting star) are false.
C28_FlatCandleIsOnlyDoji ==
    (pure.phase = "out" /\ pure.candle.high = pure.candle.low) =>
        /\ pure.ret.doji
        /\ ~pure.ret.hammer
        /\ ~pure.ret.inverted_hammer
        /\ ~pure.ret.hanging_man
        /\ ~pure.ret.shooting_star

C28_FlatCandleDetected ==
    /\ pure.phase = "out"
    /\ pure.candle.high = pure.candle.low
    /\ pure.candle.open = pure.candle.close
    /\ pure.ret.doji

\* C25: for every window of at least 3 bars detect_bullish_pattern reports the
\* first detector that is true in the order Three White Soldiers (90), Bullish
\* Engulfing (85), Piercing Line (80), Hammer (75), Inverted Hammer (70), and no
\* pattern iff none is true; bars that are both a Bullish Engulfing and a
\* Hammer yield BULLISH_ENGULFING.
C25_HighestPriorityPattern ==
    (pure.phase = "out" /\ pure.op = "detect" /\ Len(pure.df) >= 3) =>
        LET n == Len(pure.df)
            last == pure.df[n]
            prev == pure.df[n - 1]
            soldiers == detect_three_white_soldiers(SubSeq(pure.df, n - 2, n))
            engulfing == detect_bullish_engulfing(prev, last)
            piercing == detect_piercing_line(prev, last)
            hammer == detect_hammer(last)
            inverted == detect_inverted_hammer(last)
            Is(name, confidence) ==
                pure.ret = [pattern |-> name, confidence |-> confidence]
        IN /\ Is("THREE_WHITE_SOLDIERS", 90) <=> soldiers
           /\ Is("BULLISH_ENGULFING", 85) <=> (engulfing /\ ~soldiers)
           /\ Is("PIERCING_LINE", 80) <=> (piercing /\ ~engulfing /\ ~soldiers)
           /\ Is("HAMMER", 75) <=>
                (hammer /\ ~piercing /\ ~engulfing /\ ~soldiers)
           /\ Is("INVERTED_HAMMER", 70) <=>
                (inverted /\ ~hammer /\ ~piercing /\ ~engulfing /\ ~soldiers)
           /\ pure.ret = None <=>
                ~(soldiers \/ engulfing \/ piercing \/ hammer \/ inverted)
           /\ (engulfing /\ hammer) => Is("BULLISH_ENGULFING", 85)

C25_EngulfingHammer ==
    /\ pure.phase = "out"
    /\ pure.op = "detect"
    /\ detect_bullish_engulfing(pure.df[Len(pure.df) - 1], pure.df[Len(pure.df)])
    /\ detect_hammer(pure.df[Len(pure.df)])
    /\ pure.ret # None
    /\ pure.ret.pattern = "BULLISH_ENGULFING"

\* C30: when the filter chain and the pattern classifier see the same latest
\* bar, no valid signal has pattern INVERTED_HAMMER: a bar accepted by
\* detect_inverted_hammer has an upper shadow >= 80 % of its range, which the
\* stock-emotion filter rejects, so every valid signal has a pattern
\* confidence in {75, 80, 85, 90}.
C30_NoValidInvertedHammer ==
    (pure.phase = "out" /\ pure.op = "scan") =>
        LET last == pure.df[Len(pure.df)]
        IN /\ detect_inverted_hammer(last) =>
                /\ 10 * (last.high - Max(last.open, last.close))
                       >= 8 * (last.high - last.low)
                /\ ~pure.ret.filters_passed["stock"].passed
           /\ pure.ret.valid =>
                /\ detect_bullish_pattern(pure.df) # None
                /\ detect_bullish_pattern(pure.df).pattern # "INVERTED_HAMMER"
                /\ pure.sc.pattern \in {75, 80, 85, 90}

C30_InvertedHammerRejectedForItsWick ==
    /\ pure.phase = "out"
    /\ pure.op = "scan"
    /\ pure.sc.pattern = 70
    /\ filter_stock_emotion(pure.df, pure.volume, pure.avg_volume).reason = "wick"
    /\ pure.sc.volume_ok
    /\ pure.sc.breakout_ok
    /\ ~pure.ret.valid

----------------------------------------------------------------------------
(* Claims on the filter chain *)

\* C19: when a call to the news/calendar provider fails (HTTP error, timeout or
\* exception), the earnings, negative-news and downgrade filters that depend
\* on it report passed = true, check_emergency_exit_conditions reports no
\* exit based on the failed news or ratings call, and every call returns its
\* result (no exception is left to reach run_cycle).
C19_ProviderFailureFailsOpen ==
    (pure # None /\ pure.phase = "out" /\ "passed" \in DOMAIN pure) =>
        /\ pure.earnings.status # "ok" => pure.passed.earnings = TRUE
        /\ pure.news.status # "ok" =>
              /\ pure.passed.negative_news = TRUE
              /\ pure.emergency.reason # "News"
        /\ pure.ratings.status # "ok" =>
              /\ pure.passed.downgrade = TRUE
              /\ pure.emergency.reason # "Downgrade"
        /\ (pure.news.status # "ok" /\ pure.ratings.status # "ok") =>
              pure.emergency.reason \in {"OK", "Spread"}
        /\ \A n \in DOMAIN pure.passed : pure.passed[n] \in BOOLEAN
        /\ pure.emergency.exit \in BOOLEAN

C19_FailedCallWithNegativeBody ==
    /\ pure # None
    /\ pure.phase = "out"
    /\ "passed" \in DOMAIN pure
    /\ pure.news.status = "http_error"
    /\ pure.news.data = <<TRUE>>
    /\ pure.ratings.status = "exception"
    /\ pure.earnings.status = "ok"
    /\ ~pure.passed.earnings
    /\ pure.passed.negative_news
    /\ ~pure.emergency.exit


\* C10: for every ticker and every combination of filter outcomes,
\* validate_all_filters runs all nine filters, returns exactly the nine keys
\* watchlist, time, earnings, market, sector, stock, negative_news, downgrade,
\* spread, and its overall result is true iff all nine 'passed' flags are true.
C10_AllNineFiltersEvaluated ==
    (pure # None /\ pure.phase = "out") =>
        /\ Len(pure.ret.calls) = 9
        /\ {pure.ret.calls[i] : i \in DOMAIN pure.ret.calls} = DOMAIN pure.ret.results
        /\ DOMAIN pure.ret.results =
             {"watchlist", "time", "earnings", "market", "sector", "stock",
              "negative_news", "downgrade", "spread"}
        /\ \A n \in DOMAIN pure.outcome :
               pure.ret.results[n].passed = pure.outcome[n]
        /\ pure.ret.results["time"].passed = PermittedInstant(now)
        /\ pure.ret.all_passed =
             (\A n \in DOMAIN pure.ret.results : pure.ret.results[n].passed)

C10_LaterFiltersRunAfterFailure ==
    /\ pure # None
    /\ pure.phase = "out"
    /\ ~pure.ret.all_passed
    /\ ~pure.outcome["watchlist"]
    /\ pure.ret.results["spread"].passed
    /\ pure.ret.results["downgrade"].passed

====
